---- MODULE Spec2Model ----
(***************************************************************************)
(* A model of agentwatch: process discovery (the ppid walk, depths, team   *)
(* ids, tree order, teams), the log tailer (LogWatcher, MultiLogWatcher's  *)
(* shared queue) and the rolling ActionBuffer.                             *)
(*                                                                         *)
(* Each subsystem has a specification of its own over the same variables:  *)
(*   SpecDiscover  lines 193-200 of find_running_agents, the ppid walk     *)
(*                 taken one loop iteration at a time                      *)
(*   SpecForest    _compute_depths, _assign_team_ids, build_agent_tree and *)
(*                 build_teams applied to arbitrary agent lists            *)
(*   SpecTail      one log file, its writer, LogWatcher.watch and the      *)
(*                 consumer, directly or through the shared queue          *)
(*   SpecBuffer    ActionBuffer.add                                        *)
(*   SpecErrors    ActionBuffer.add with failed actions                    *)
(*   SpecHealth, SpecEfficiency, SpecTeam   the scores of health/score.py  *)
(*   SpecCheck, SpecScan   the check and security-scan commands            *)
(*   SpecLifecycle MultiLogWatcher.from_processes and refresh_processes    *)
(*   SpecAssign    _assign_team_ids, one loop iteration at a time          *)
(*   SpecRotate    SpecTail with a writer that truncates the log           *)
(*   SpecWatch     MultiLogWatcher.watch, its tasks and its consumer       *)
(* The variables of the other subsystems stay at their idle values.        *)
(***************************************************************************)
EXTENDS Integers, Sequences, FiniteSets, TLC

VARIABLES
    \* ---- discovery: find_running_agents' post-processing
    pid_to_ppid,   \* dict pid -> ppid built from the ps listing
    agents,        \* list of AgentProcess records
    agents0,       \* history: the list as it was handed in
    max_hops,      \* the walker's hop cap
    idx,           \* index of the agent whose ancestor is being resolved
    current,       \* _walk_to_ancestor_agent: local `current`
    visited,       \* _walk_to_ancestor_agent: local `visited`
    hops,          \* _walk_to_ancestor_agent: local `hops`
    examined,      \* history: loop iterations of the current walk
    walk_ret,      \* value returned by the last finished walk
    dpc,           \* position in the discovery code
    \* ---- forest operations on an arbitrary list
    computed,      \* _compute_depths has run on `agents`
    assigned,      \* _assign_team_ids has run after _compute_depths
    tree,          \* last result of build_agent_tree
    treeState,     \* "none" | "raw" | "computed": what `tree` was built from
    teams,         \* last result of build_teams
    teamsState,    \* "none" | "raw" | "computed"
    \* ---- the tailer: one log file, LogWatcher, the consumer
    exists,        \* the log file exists
    file,          \* its bytes
    position,      \* LogWatcher._position
    log_format,    \* LogWatcher._log_format
    wpc,           \* LogWatcher.watch: "start" | "backlog" | "tail"
    pending,       \* actions _read_new_lines returned that watch() has not yielded yet
    notified,      \* awatch holds a Change.modified event for the file
    mode,          \* "single": watch() consumed directly; "multi": through fill_queue
    queue,         \* MultiLogWatcher.watch: the asyncio.Queue
    delivered,     \* history: events the consumer has received
    foreign,       \* history: actions other files' tasks have put on the queue
    fresh,         \* history: nothing was appended since the last _read_new_lines
    prev_position, \* history: _position before the last _read_new_lines
    held,          \* history: start of the line a read last left unread for want of a newline
    \* ---- the rolling buffer: one ActionBuffer
    max_size,      \* ActionBuffer.max_size, the deque's maxlen
    actions,       \* ActionBuffer.actions
    file_access_counts, \* ActionBuffer._file_access_counts
    error_messages,     \* ActionBuffer._error_messages
    stats,         \* ActionBuffer._stats
    added,         \* history: every action handed to add, in call order
    \* ---- scoring: one run of calculate_health per list of warnings
    warnings,      \* the list of warnings handed to calculate_health
    include_security,   \* calculate_health's flag
    efficiency_score,   \* calculate_health's optional efficiency score
    rot_score,     \* calculate_health's optional rot score, in hundredths
    report,        \* HealthReport of calculate_health(warnings, ...)
    prev_report,   \* history: the report of the list without its last warning
    \* ---- scoring: one run of calculate_efficiency
    eff_warnings,  \* the warnings handed to calculate_efficiency
    eff_actions,   \* the actions of the buffer handed to it
    eff_report,    \* its EfficiencyReport
    \* ---- scoring: one run of calculate_team_health
    member_reports,     \* map pid -> overall score of the member's HealthReport
    root_pid,      \* the team's root pid
    team_report,   \* its TeamHealthReport
    \* ---- the check command
    cpc,           \* position in check: "start" | "scored" | "exited"
    check_report,  \* the report check prints: overall score and status
    exit_code,     \* the code handed to sys.exit
    \* ---- agent lifecycle: MultiLogWatcher in process mode
    process_meta,  \* MultiLogWatcher._process_meta: log path -> AgentProcess
    prev_meta,     \* history: _process_meta before the last refresh_processes
    snapshot,      \* history: the processes handed to the last refresh_processes
    on_disk,       \* history: the log paths that existed during that call
    new_agents,    \* value returned by the last refresh_processes
    \* ---- rotation of the tailed file
    rotation,      \* history: what had been returned when the file was truncated
    \* ---- MultiLogWatcher.watch in process mode
    active_files,  \* MultiLogWatcher._active_files
    tasks,         \* watch(): the tasks created, in creation order
    wqueue,        \* watch(): its asyncio.Queue
    yielded,       \* history: the events the consumer received from watch()
    mpc,           \* position of watch(), see SpecWatch
    current_logs,  \* watch(): the logs of this poll not yet looked at
    polled         \* history: the paths tracked when this poll listed the logs

discVars == <<pid_to_ppid, agents, agents0, max_hops, idx, current, visited,
              hops, examined, walk_ret, dpc>>
forestVars == <<computed, assigned, tree, treeState, teams, teamsState>>
tailVars == <<exists, file, position, log_format, wpc, pending, notified,
              mode, queue, delivered, foreign, fresh, prev_position, held>>
bufVars == <<max_size, actions, file_access_counts, error_messages, stats,
             added>>
healthVars == <<warnings, include_security, efficiency_score, rot_score,
                report, prev_report>>
\* the state of the scoring and lifecycle parts
effVars == <<eff_warnings, eff_actions, eff_report>>
teamVars == <<member_reports, root_pid, team_report>>
cliVars == <<cpc, check_report, exit_code>>
lifeVars == <<process_meta, prev_meta, snapshot, on_disk, new_agents>>
rotVars == <<rotation>>
watchVars == <<active_files, tasks, wqueue, yielded, mpc, current_logs, polled>>
laterVars == <<healthVars, effVars, teamVars, cliVars, lifeVars, rotVars,
               watchVars>>
vars == <<discVars, forestVars, tailVars, bufVars, laterVars>>

(***************************************************************************)
(* Bounds of the model.                                                    *)
(***************************************************************************)
MaxPid == 3
MaxHopCap == 2

\* Python's None, for pids, depths and team ids (all of which are >= 0).
None == -1

\* Process ids that agents and listed processes can have.  Pid 0 is the
\* parent of the first process: it occurs as a ppid and is never listed.
Pids == 1..MaxPid
PpidValues == 0..MaxPid

\* def _walk_to_ancestor_agent(..., max_hops: int = 50)
DefaultMaxHops == 50
HopCaps == (1..MaxHopCap) \cup {DefaultMaxHops}

(***************************************************************************)
(* AgentProcess, reduced to the fields discovery computes with.            *)
(***************************************************************************)
AgentProcess(p, parent) ==
    [pid |-> p, parent_agent_pid |-> parent, depth |-> 0, team_id |-> None]

is_root(a) == a.depth = 0

\* agent_by_pid = {a.pid: a for a in agents}, then agent_by_pid.get(p):
\* the index of the (last) agent with pid p, 0 when the dict has no such key.
AgentByPid(ags, p) ==
    LET S == {i \in DOMAIN ags : ags[i].pid = p}
    IN  IF S = {} THEN 0 ELSE CHOOSE i \in S : \A j \in S : j <= i

(***************************************************************************)
(* _compute_depths                                                         *)
(***************************************************************************)
\* "Mark roots": depth 0 and resolved for every agent without a parent.
MarkRoots(ags) ==
    [ags |-> [i \in DOMAIN ags |->
                 IF ags[i].parent_agent_pid = None
                 THEN [ags[i] EXCEPT !.depth = 0] ELSE ags[i]],
     resolved |-> {ags[i].pid : i \in {j \in DOMAIN ags :
                                          ags[j].parent_agent_pid = None}},
     changed |-> TRUE]

\* One pass of `for agent in agents` inside the while loop, from index i on.
\* A depth set earlier in the pass is seen by the agents after it.
RECURSIVE ResolvePass(_, _)
ResolvePass(st, i) ==
    IF i > Len(st.ags) THEN st
    ELSE LET a == st.ags[i]
             pi == AgentByPid(st.ags, a.parent_agent_pid)
         IN  IF a.pid \in st.resolved THEN ResolvePass(st, i + 1)
             ELSE IF pi # 0 /\ st.ags[pi].pid \in st.resolved
                  THEN ResolvePass(
                         [ags |-> [st.ags EXCEPT
                                      ![i].depth = st.ags[pi].depth + 1],
                          resolved |-> st.resolved \cup {a.pid},
                          changed |-> TRUE], i + 1)
                  ELSE ResolvePass(st, i + 1)

\* Variant: one pass over the agents, not repeated until nothing changes.
ResolveLoopOnce(st) == ResolvePass([st EXCEPT !.changed = FALSE], 1)

\* while changed: changed = False; <pass>
RECURSIVE ResolveLoop(_)
ResolveLoop(st) ==
    IF ~st.changed THEN st
    ELSE ResolveLoop(ResolvePass([st EXCEPT !.changed = FALSE], 1))

\* Variant: the orphan's depth is reset and its parent_agent_pid is kept.
PromoteOrphansKeepParent(st) ==
    [i \in DOMAIN st.ags |->
        IF st.ags[i].pid \notin st.resolved
        THEN [st.ags[i] EXCEPT !.depth = 0]
        ELSE st.ags[i]]

\* "Promote any unresolved agents (orphaned subagents) to root"
PromoteOrphans(st) ==
    [i \in DOMAIN st.ags |->
        IF st.ags[i].pid \notin st.resolved
        THEN [st.ags[i] EXCEPT !.parent_agent_pid = None, !.depth = 0]
        ELSE st.ags[i]]

ComputeDepths(ags) == PromoteOrphans(ResolveLoop(MarkRoots(ags)))

(***************************************************************************)
(* _assign_team_ids                                                        *)
(***************************************************************************)
\* The while loop of lines 293-297: the index `current` ends at.
RECURSIVE WalkToRoot(_, _)
WalkToRoot(ags, i) ==
    IF ags[i].parent_agent_pid = None THEN i
    ELSE LET pi == AgentByPid(ags, ags[i].parent_agent_pid)
         IN  IF pi = 0 THEN i ELSE WalkToRoot(ags, pi)

\* Variant: a subagent takes its parent's pid, without walking on to the root.
TeamIdForParentOnly(ags, i) ==
    IF is_root(ags[i]) THEN ags[i].pid
    ELSE LET pi == AgentByPid(ags, ags[i].parent_agent_pid)
         IN  IF pi = 0 THEN ags[i].pid ELSE ags[pi].pid

TeamIdFor(ags, i) ==
    IF is_root(ags[i]) THEN ags[i].pid ELSE ags[WalkToRoot(ags, i)].pid

AssignTeamIds(ags) ==
    [i \in DOMAIN ags |-> [ags[i] EXCEPT !.team_id = TeamIdFor(ags, i)]]

(***************************************************************************)
(* build_agent_tree                                                        *)
(***************************************************************************)
\* children.sort(key=lambda a: a.pid): a stable sort, as insertion sort.
RECURSIVE InsertByPid(_, _)
InsertByPid(sorted, a) ==
    IF sorted = <<>> THEN <<a>>
    ELSE IF a.pid < Head(sorted).pid THEN <<a>> \o sorted
         ELSE <<Head(sorted)>> \o InsertByPid(Tail(sorted), a)

RECURSIVE SortByPid(_)
SortByPid(s) ==
    IF s = <<>> THEN <<>>
    ELSE InsertByPid(SortByPid(SubSeq(s, 1, Len(s) - 1)), s[Len(s)])

\* Variant: the children are left in list order (no sort).
ByParentUnsorted(ags, p) ==
    SelectSeq(ags, LAMBDA a : a.parent_agent_pid = p)

\* by_parent[p] after the sort: the agents whose parent_agent_pid is p.
ByParent(ags, p) ==
    SortByPid(SelectSeq(ags, LAMBDA a : a.parent_agent_pid = p))

\* _walk over a list of siblings: each agent, then its own children.
RECURSIVE WalkChildren(_, _)
WalkChildren(ags, kids) ==
    IF kids = <<>> THEN <<>>
    ELSE <<Head(kids)>> \o WalkChildren(ags, ByParent(ags, Head(kids).pid))
                        \o WalkChildren(ags, Tail(kids))

\* result: the returned list; agents: the argument list after the call
\* (the sorts act on the lists of by_parent, which are new lists).
BuildAgentTree(ags) ==
    [result |-> WalkChildren(ags, ByParent(ags, None)), agents |-> ags]

(***************************************************************************)
(* build_teams                                                             *)
(***************************************************************************)
RECURSIVE SortedSeq(_)
SortedSeq(S) ==
    IF S = {} THEN <<>>
    ELSE LET m == CHOOSE x \in S : \A y \in S : x <= y
         IN  <<m>> \o SortedSeq(S \ {m})

\* tid = agent.team_id, or agent.pid when that is None
TidOf(a) == IF a.team_id = None THEN a.pid ELSE a.team_id

\* Variant: the members stay in list order (no build_agent_tree).
AgentTeamListOrder(as, t) ==
    LET withPid == {i \in DOMAIN as : as[i].pid = t}
    IN  [team_id |-> t,
         root |-> as[CHOOSE i \in withPid : \A j \in withPid : i <= j],
         members |-> SelectSeq(as, LAMBDA a : TidOf(a) = t)]

\* The AgentTeam for team id t: root is the first agent whose pid is t, or
\* else the agent that opened the team; members in tree order.
AgentTeam(as, t) ==
    LET opener == CHOOSE i \in DOMAIN as :
                     /\ TidOf(as[i]) = t
                     /\ \A j \in 1..(i - 1) : TidOf(as[j]) # t
        withPid == {i \in DOMAIN as : as[i].pid = t}
        root == IF withPid = {} THEN as[opener]
                ELSE as[CHOOSE i \in withPid : \A j \in withPid : i <= j]
        members == SelectSeq(as, LAMBDA a : TidOf(a) = t)
    IN  [team_id |-> t, root |-> root,
         members |-> BuildAgentTree(members).result]

\* build_teams after its call of _assign_team_ids (lines 309-325)
GroupTeams(as) ==
    LET order == SortedSeq({TidOf(as[i]) : i \in DOMAIN as})
    IN  [k \in DOMAIN order |-> AgentTeam(as, order[k])]

BuildTeams(ags) ==
    LET as == AssignTeamIds(ags)
    IN  [result |-> GroupTeams(as), agents |-> as]

(***************************************************************************)
(* SpecDiscover: find_running_agents, lines 193-200.  For each agent the   *)
(* ppid chain is walked (_walk_to_ancestor_agent, one loop iteration per   *)
(* step), then _compute_depths and _assign_team_ids run on the list.       *)
(***************************************************************************)
\* dict.get(key): None for a key the dict does not hold
Get(map, key) == IF key \in DOMAIN map THEN map[key] ELSE None

\* agent_pids = {a.pid for a in agents}
agent_pids == {agents[i].pid : i \in DOMAIN agents}

ForestIdle ==
    /\ computed = FALSE /\ assigned = FALSE
    /\ tree = <<>> /\ treeState = "none"
    /\ teams = <<>> /\ teamsState = "none"

WalkIdle ==
    /\ current = None /\ visited = {} /\ hops = 0
    /\ examined = 0 /\ walk_ret = None

TailIdle ==
    /\ exists = FALSE /\ file = <<>> /\ position = 0 /\ log_format = "None"
    /\ wpc = "start" /\ pending = <<>> /\ notified = FALSE
    /\ mode = "single" /\ queue = <<>> /\ delivered = <<>> /\ foreign = 0
    /\ fresh = FALSE /\ prev_position = 0 /\ held = None

\* SessionStats() as the dataclass defaults make it
SessionStats ==
    [start_time |-> None, action_count |-> 0, total_tokens |-> 0,
     error_count |-> 0, files_touched |-> {}]

BufferIdle ==
    /\ max_size = 0 /\ actions = <<>> /\ file_access_counts = <<>>
    /\ error_messages = <<>> /\ stats = SessionStats /\ added = <<>>

HealthIdle ==
    /\ warnings = <<>> /\ include_security = FALSE
    /\ efficiency_score = None /\ rot_score = None
    /\ report = <<>> /\ prev_report = <<>>

EffIdle == eff_warnings = <<>> /\ eff_actions = <<>> /\ eff_report = <<>>

TeamIdle == member_reports = <<>> /\ root_pid = None /\ team_report = <<>>

CliIdle == cpc = "idle" /\ check_report = <<>> /\ exit_code = None

LifeIdle ==
    /\ process_meta = <<>> /\ prev_meta = <<>> /\ snapshot = <<>>
    /\ on_disk = {} /\ new_agents = <<>>

RotIdle == rotation = <<>>

WatchIdle ==
    /\ active_files = {} /\ tasks = <<>> /\ wqueue = <<>> /\ yielded = <<>>
    /\ mpc = "idle" /\ current_logs = {} /\ polled = {}

LaterIdle ==
    /\ HealthIdle /\ EffIdle /\ TeamIdle /\ CliIdle /\ LifeIdle
    /\ RotIdle /\ WatchIdle

\* the state outside discovery and the forest functions
notDiscovery == <<tailVars, bufVars, laterVars>>

InitDiscover ==
    /\ pid_to_ppid \in [Pids -> PpidValues]
    /\ \E S \in SUBSET Pids :
          LET order == SortedSeq(S)
          IN  agents = [i \in DOMAIN order |-> AgentProcess(order[i], None)]
    /\ agents0 = agents
    /\ max_hops \in HopCaps
    /\ idx = 1
    /\ dpc = "resolve"
    /\ WalkIdle
    /\ ForestIdle
    /\ TailIdle
    /\ BufferIdle
    /\ LaterIdle

\* lines 217-219: the walk's locals at entry
WalkCall ==
    /\ dpc = "resolve" /\ idx <= Len(agents)
    /\ current' = Get(pid_to_ppid, agents[idx].pid)
    /\ visited' = {agents[idx].pid}
    /\ hops' = 0
    /\ examined' = 0
    /\ dpc' = "walk"
    /\ UNCHANGED <<pid_to_ppid, agents, agents0, max_hops, idx, walk_ret>>
    /\ UNCHANGED <<forestVars, notDiscovery>>

\* Variant: the loop without the hop cap.
WalkLoopTestNoCap ==
    current # None /\ current \notin visited

\* Variant: the loop stops one hop early.
WalkLoopTestShort ==
    current # None /\ current \notin visited /\ hops < max_hops - 1

\* line 220: while current is not None and current not in visited and hops < max_hops
WalkLoopTest ==
    current # None /\ current \notin visited /\ hops < max_hops

\* lines 221-222: the ancestor is an agent
WalkFound ==
    /\ dpc = "walk" /\ WalkLoopTest
    /\ current \in agent_pids
    /\ walk_ret' = current
    /\ examined' = examined + 1
    /\ dpc' = "returned"
    /\ UNCHANGED <<pid_to_ppid, agents, agents0, max_hops, idx, current,
                   visited, hops>>
    /\ UNCHANGED <<forestVars, notDiscovery>>

\* lines 223-225: step to the next ancestor
WalkAdvance ==
    /\ dpc = "walk" /\ WalkLoopTest
    /\ current \notin agent_pids
    /\ visited' = visited \cup {current}
    /\ current' = Get(pid_to_ppid, current)
    /\ hops' = hops + 1
    /\ examined' = examined + 1
    /\ UNCHANGED <<pid_to_ppid, agents, agents0, max_hops, idx, walk_ret, dpc>>
    /\ UNCHANGED <<forestVars, notDiscovery>>

\* line 226: return None
WalkGiveUp ==
    /\ dpc = "walk" /\ ~WalkLoopTest
    /\ walk_ret' = None
    /\ dpc' = "returned"
    /\ UNCHANGED <<pid_to_ppid, agents, agents0, max_hops, idx, current,
                   visited, hops, examined>>
    /\ UNCHANGED <<forestVars, notDiscovery>>

\* lines 196-197, and on to the next agent
SetParent ==
    /\ dpc = "returned"
    /\ agents' = IF walk_ret # None
                 THEN [agents EXCEPT ![idx].parent_agent_pid = walk_ret]
                 ELSE agents
    /\ idx' = idx + 1
    /\ dpc' = "resolve"
    /\ UNCHANGED <<pid_to_ppid, agents0, max_hops, current, visited, hops,
                   examined, walk_ret>>
    /\ UNCHANGED <<forestVars, notDiscovery>>

\* line 199
DiscoverDepths ==
    /\ dpc = "resolve" /\ idx > Len(agents)
    /\ agents' = ComputeDepths(agents)
    /\ computed' = TRUE
    /\ dpc' = "depths"
    /\ UNCHANGED <<pid_to_ppid, agents0, max_hops, idx, current, visited,
                   hops, examined, walk_ret>>
    /\ UNCHANGED <<assigned, tree, treeState, teams, teamsState>>
    /\ UNCHANGED notDiscovery

\* line 200
DiscoverTeams ==
    /\ dpc = "depths"
    /\ agents' = AssignTeamIds(agents)
    /\ assigned' = TRUE
    /\ dpc' = "done"
    /\ UNCHANGED <<pid_to_ppid, agents0, max_hops, idx, current, visited,
                   hops, examined, walk_ret>>
    /\ UNCHANGED <<computed, tree, treeState, teams, teamsState>>
    /\ UNCHANGED notDiscovery

NextDiscover ==
    \/ WalkCall \/ WalkFound \/ WalkAdvance \/ WalkGiveUp
    \/ SetParent \/ DiscoverDepths \/ DiscoverTeams

SpecDiscover == InitDiscover /\ [][NextDiscover]_vars

(***************************************************************************)
(* SpecForest: the forest functions called on a list of agents with        *)
(* distinct pids and any parent_agent_pid values, in any order.            *)
(***************************************************************************)
MaxAgents == 3

ParentValues == PpidValues \cup {None}

Injective(f) == \A i, j \in DOMAIN f : f[i] = f[j] => i = j

InitForest ==
    /\ \E n \in 0..MaxAgents :
         \E ps \in [1..n -> Pids], par \in [1..n -> ParentValues] :
            /\ Injective(ps)
            /\ agents = [i \in 1..n |-> AgentProcess(ps[i], par[i])]
    /\ agents0 = agents
    /\ pid_to_ppid = <<>>
    /\ max_hops = DefaultMaxHops
    /\ idx = 0
    /\ dpc = "forest"
    /\ WalkIdle
    /\ ForestIdle
    /\ TailIdle
    /\ BufferIdle
    /\ LaterIdle

\* what the forest functions leave alone of the discovery state
discRest == <<pid_to_ppid, agents0, max_hops, idx, current, visited, hops,
              examined, walk_ret, dpc>>

ComputeDepthsCall ==
    /\ dpc = "forest"
    /\ agents' = ComputeDepths(agents)
    /\ computed' = TRUE
    /\ UNCHANGED discRest
    /\ UNCHANGED <<assigned, tree, treeState, teams, teamsState>>
    /\ UNCHANGED notDiscovery

AssignTeamIdsCall ==
    /\ dpc = "forest"
    /\ agents' = AssignTeamIds(agents)
    /\ assigned' = computed
    /\ UNCHANGED discRest
    /\ UNCHANGED <<computed, tree, treeState, teams, teamsState>>
    /\ UNCHANGED notDiscovery

BuildAgentTreeCall ==
    /\ dpc = "forest"
    /\ LET r == BuildAgentTree(agents)
       IN  /\ tree' = r.result
           /\ agents' = r.agents
    /\ treeState' = IF computed THEN "computed" ELSE "raw"
    /\ UNCHANGED discRest
    /\ UNCHANGED <<computed, assigned, teams, teamsState>>
    /\ UNCHANGED notDiscovery

\* build_teams calls _assign_team_ids on its argument first (line 307)
BuildTeamsCall ==
    /\ dpc = "forest"
    /\ LET r == BuildTeams(agents)
       IN  /\ teams' = r.result
           /\ agents' = r.agents
    /\ teamsState' = IF computed THEN "computed" ELSE "raw"
    /\ assigned' = computed
    /\ UNCHANGED discRest
    /\ UNCHANGED <<computed, tree, treeState>>
    /\ UNCHANGED notDiscovery

NextForest ==
    \/ ComputeDepthsCall \/ AssignTeamIdsCall
    \/ BuildAgentTreeCall \/ BuildTeamsCall

SpecForest == InitForest /\ [][NextForest]_vars

(***************************************************************************)
(* Reference notions the claims are stated with.  They are defined from    *)
(* the parent links alone, as sets, not by the code's walks.               *)
(***************************************************************************)
PidsOf(ags) == {ags[i].pid : i \in DOMAIN ags}
PidSeq(ags) == [i \in DOMAIN ags |-> ags[i].pid]

\* indices of the agents whose pid is the parent_agent_pid of agent i
ParentsOf(ags, i) ==
    {j \in DOMAIN ags : ags[i].parent_agent_pid # None
                         /\ ags[j].pid = ags[i].parent_agent_pid}

\* S closed under "parent of", after n rounds
RECURSIVE UpClosure(_, _, _)
UpClosure(ags, S, n) ==
    IF n = 0 THEN S
    ELSE UpClosure(ags, S \cup UNION {ParentsOf(ags, k) : k \in S}, n - 1)

\* agent i and all its ancestors
SelfAndAncestors(ags, i) == UpClosure(ags, {i}, Len(ags))
\* the proper ancestors of agent i
Ancestors(ags, i) ==
    UpClosure(ags, ParentsOf(ags, i), Len(ags))
\* pids of the roots (agents without parent) among agent i and its ancestors
RootPids(ags, i) ==
    {ags[j].pid : j \in {k \in SelfAndAncestors(ags, i) :
                            ags[k].parent_agent_pid = None}}

\* order is a list of agents in which each parent comes before all its
\* descendants and agents with the same parent come in ascending pid order
IsPreorder(order) ==
    /\ \A k, l \in DOMAIN order : k \in Ancestors(order, l) => k < l
    /\ \A k, l \in DOMAIN order :
          (k < l /\ order[k].parent_agent_pid = order[l].parent_agent_pid)
             => order[k].pid < order[l].pid

\* order holds every agent of ags exactly once and nothing else
IsArrangementOf(order, ags) ==
    /\ Len(order) = Len(ags)
    /\ \A i \in DOMAIN ags :
          Cardinality({k \in DOMAIN order : order[k].pid = ags[i].pid}) = 1

(***************************************************************************)
(* C1.  After _compute_depths: an agent has depth 0 exactly when it has no *)
(* parent_agent_pid; an agent with a parent_agent_pid has that parent in   *)
(* the list, one level above it; an agent whose declared parent was not in *)
(* the list has become a root.  The pids are as handed in.                 *)
(***************************************************************************)
C1_DepthsConsistent ==
    computed =>
       /\ PidSeq(agents) = PidSeq(agents0)
       /\ \A i \in DOMAIN agents :
             /\ agents[i].depth = 0 <=> agents[i].parent_agent_pid = None
             /\ agents[i].parent_agent_pid # None =>
                   \E j \in DOMAIN agents :
                      /\ agents[j].pid = agents[i].parent_agent_pid
                      /\ agents[i].depth = agents[j].depth + 1
             /\ (/\ agents0[i].parent_agent_pid # None
                 /\ agents0[i].parent_agent_pid \notin PidsOf(agents0))
                   => (agents[i].parent_agent_pid = None /\ agents[i].depth = 0)

\* a list with a subagent below a root, and an agent whose parent was absent
C1_Witness ==
    /\ computed
    /\ \E i \in DOMAIN agents : agents[i].depth >= 1
    /\ \E i \in DOMAIN agents :
          /\ agents0[i].parent_agent_pid # None
          /\ agents0[i].parent_agent_pid \notin PidsOf(agents0)
          /\ agents[i].parent_agent_pid = None

(***************************************************************************)
(* C2.  After _compute_depths and then _assign_team_ids: following the     *)
(* parent links from any agent reaches exactly one root, and the agent's   *)
(* team_id is that root's pid; a root's team_id is its own pid; an agent   *)
(* and its parent have the same team_id.                                   *)
(***************************************************************************)
C2_TeamIdIsRootPid ==
    assigned =>
       \A i \in DOMAIN agents :
          /\ RootPids(agents, i) = {agents[i].team_id}
          /\ agents[i].parent_agent_pid = None
                => agents[i].team_id = agents[i].pid
          /\ \A j \in ParentsOf(agents, i) :
                agents[j].team_id = agents[i].team_id

\* a grandchild carries the team id of its grandparent
C2_Witness ==
    /\ assigned
    /\ \E i \in DOMAIN agents :
          /\ agents[i].depth = 2
          /\ agents[i].team_id # agents[i].parent_agent_pid
          /\ agents[i].team_id # agents[i].pid

(***************************************************************************)
(* C5.  build_agent_tree on a forest made by _compute_depths returns every *)
(* agent once, each parent before all its descendants and the agents with  *)
(* the same parent (the roots too) in ascending pid order; the list it was *)
(* given keeps its order.                                                  *)
(***************************************************************************)
C5_TreeIsPreorder ==
    treeState = "computed" =>
       /\ IsArrangementOf(tree, agents)
       /\ IsPreorder(tree)
       /\ PidSeq(agents) = PidSeq(agents0)

\* the input has a child before its parent and siblings in descending order
C5_Witness ==
    /\ treeState = "computed"
    /\ PidSeq(tree) # PidSeq(agents)
    /\ \E i, j \in DOMAIN agents :
          /\ i < j
          /\ agents[j].pid = agents[i].parent_agent_pid
    /\ \E i, j \in DOMAIN agents :
          /\ i < j
          /\ agents[i].parent_agent_pid = agents[j].parent_agent_pid
          /\ agents[i].pid > agents[j].pid

(***************************************************************************)
(* C6.  build_teams on agents processed by _compute_depths: the teams come *)
(* in ascending team_id order; every agent is a member of exactly one team *)
(* and teams have no other members; a team's root is its member whose pid  *)
(* is the team_id, and it comes first; members are in preorder; two agents *)
(* are in the same team exactly when they have the same root ancestor.     *)
(***************************************************************************)
TeamsHolding(p) ==
    {t \in DOMAIN teams :
        \E k \in DOMAIN teams[t].members : teams[t].members[k].pid = p}

C6_TeamsPartitionForest ==
    teamsState = "computed" =>
       /\ \A t, u \in DOMAIN teams :
             t < u => teams[t].team_id < teams[u].team_id
       /\ \A t \in DOMAIN teams :
             /\ teams[t].members # <<>>
             /\ teams[t].root.pid = teams[t].team_id
             /\ teams[t].members[1] = teams[t].root
             /\ IsPreorder(teams[t].members)
             /\ \A k, l \in DOMAIN teams[t].members :
                   teams[t].members[k].pid = teams[t].members[l].pid => k = l
             /\ \A k \in DOMAIN teams[t].members :
                   teams[t].members[k].pid \in PidsOf(agents)
       /\ \A i \in DOMAIN agents :
             Cardinality(TeamsHolding(agents[i].pid)) = 1
       /\ \A i, j \in DOMAIN agents :
             TeamsHolding(agents[i].pid) = TeamsHolding(agents[j].pid)
                <=> RootPids(agents, i) = RootPids(agents, j)

\* two teams, one of them a root with a subagent listed before it
C6_Witness ==
    /\ teamsState = "computed"
    /\ Len(teams) = 2
    /\ \E t \in DOMAIN teams : Len(teams[t].members) = 2
    /\ \E i, j \in DOMAIN agents :
          /\ i < j
          /\ agents[j].pid = agents[i].parent_agent_pid

(***************************************************************************)
(* The ppid chain of a pid, read off pid_to_ppid: Ancestor(p, k) is the    *)
(* k-th ancestor of p, None once the chain has ended.                      *)
(***************************************************************************)
RECURSIVE Ancestor(_, _)
Ancestor(p, k) ==
    IF k = 0 THEN p
    ELSE LET q == Ancestor(p, k - 1)
         IN  IF q = None THEN None ELSE Get(pid_to_ppid, q)

\* hop counts, up to cap, at which an agent other than p sits on p's chain
AgentHops(p, cap) ==
    {k \in 1..cap : Ancestor(p, k) \in agent_pids \ {p}}

\* the nearest ancestor of p that is an agent, within cap hops; else None
NearestAgent(p, cap) ==
    IF AgentHops(p, cap) = {} THEN None
    ELSE Ancestor(p, CHOOSE k \in AgentHops(p, cap) :
                        \A l \in AgentHops(p, cap) : k <= l)

(***************************************************************************)
(* C3.  _walk_to_ancestor_agent ends on every pid-to-ppid map, cycles and  *)
(* self-parents included: a walk runs at most max_hops loop iterations and *)
(* no pid is examined twice; when it stops because the chain ended, a pid  *)
(* repeated or the cap was reached, it returns None, and what it returns   *)
(* otherwise is an agent's pid.                                            *)
(***************************************************************************)
C3_WalkTerminates ==
    /\ examined <= max_hops
    /\ hops <= examined
    /\ dpc \in {"walk", "returned"} =>
          /\ Cardinality(visited) = hops + 1
          /\ examined <= Cardinality(visited)
    /\ dpc = "returned" =>
          /\ (current = None \/ current \in visited \/ hops >= max_hops)
                => walk_ret = None
          /\ walk_ret # None => walk_ret \in agent_pids

\* a walk that stopped on a cycle among the ancestors, two hops up, with
\* the cap not reached
C3_Witness ==
    /\ dpc = "returned" /\ walk_ret = None
    /\ current # None /\ current \in visited
    /\ current # agents[idx].pid
    /\ hops = 2 /\ hops < max_hops

(***************************************************************************)
(* C4.  The walk from an agent p returns the nearest proper ancestor of p  *)
(* that is an agent, non-agent processes in between skipped, when one lies *)
(* within max_hops hops, and None otherwise; it never returns p.  After    *)
(* discovery an agent whose nearest agent ancestor has no agent ancestor   *)
(* itself has that ancestor as parent_agent_pid and depth 1.               *)
(***************************************************************************)
C4_WalkFindsNearestAgent ==
    /\ dpc = "returned" =>
          /\ walk_ret = NearestAgent(agents[idx].pid, max_hops)
          /\ walk_ret # agents[idx].pid
    /\ dpc \in {"depths", "done"} =>
          \A i \in DOMAIN agents :
             LET n == NearestAgent(agents[i].pid, max_hops)
             IN  (n # None /\ NearestAgent(n, max_hops) = None)
                    => /\ agents[i].parent_agent_pid = n
                       /\ agents[i].depth = 1

\* an agent found its parent agent behind a non-agent process, at exactly
\* max_hops hops, and ended at depth 1
C4_Witness ==
    /\ dpc = "done"
    /\ \E i \in DOMAIN agents :
          /\ agents[i].depth = 1
          /\ Ancestor(agents[i].pid, 1) \notin agent_pids
          /\ Ancestor(agents[i].pid, 2) = agents[i].parent_agent_pid
          /\ max_hops = 2

(***************************************************************************)
(* The tailer.  A log file is a sequence of bytes.  The writer's alphabet: *)
(* newline, space, the digit 1 and an opening brace.  A line of digits is  *)
(* a JSON document (a number); a line holding a brace, or digits around a  *)
(* space, is not.                                                          *)
(***************************************************************************)
MaxFile == 5
MaxForeign == 1

NL == 10
SP == 32
DIGIT == 49
BRACE == 123
Bytes == {NL, SP, DIGIT, BRACE}

IsSpace(b) == b = NL \/ b = SP

\* str.strip()
RECURSIVE LStrip(_)
LStrip(t) == IF t # <<>> /\ IsSpace(Head(t)) THEN LStrip(Tail(t)) ELSE t
RECURSIVE RStrip(_)
RStrip(t) ==
    IF t # <<>> /\ IsSpace(t[Len(t)]) THEN RStrip(SubSeq(t, 1, Len(t) - 1))
    ELSE t
Strip(t) == RStrip(LStrip(t))

\* json.loads(t) does not raise JSONDecodeError, for t over Bytes, stripped
JsonValid(t) == t # <<>> /\ \A i \in DOMAIN t : t[i] = DIGIT
\* the decoded entry, told apart by its number of digits
JsonLoads(t) == Len(t)

\* parser/logs.py: the adapters.  The entry's value stands for its shape:
\* 1 a claude-code entry with one tool part, 2 one with two tool parts,
\* 3 an entry no adapter knows, 4 and more a moltbot entry.
detect_log_format(entry) ==
    IF entry <= 2 THEN "claude-code"
    ELSE IF entry = 3 THEN "skip" ELSE "moltbot"
\* number of actions the claude-code adapter makes of the entry
parse_claude_code_entry(entry) == IF entry <= 2 THEN entry ELSE 0
\* number of actions the moltbot adapter makes of the entry
parse_moltbot_entry(entry) == IF entry >= 4 THEN 1 ELSE 0

\* LogWatcher._parse_entry: [n: how many actions, log_format: the new state]
ParseEntry(entry, fmt) ==
    LET detected == IF fmt \in {"None", "skip"}
                    THEN detect_log_format(entry) ELSE fmt
    IN  IF fmt \in {"None", "skip"} /\ detected = "skip"
        THEN [n |-> 0, log_format |-> "skip"]
        ELSE [n |-> IF detected = "moltbot" THEN parse_moltbot_entry(entry)
                    ELSE parse_claude_code_entry(entry),
              log_format |-> detected]

\* An Action, known by the offset of the line it was parsed from and its
\* place among that line's actions.
ActionsOfLine(offset, n) == [k \in 1..n |-> [line |-> offset, part |-> k]]

\* f.readline() with the file offset at `tell`: up to and with the next
\* newline, or up to the end of the file
ReadLine(f, tell) ==
    IF tell >= Len(f) THEN <<>>
    ELSE LET ends == {i \in (tell + 1)..Len(f) : f[i] = NL}
             last == IF ends = {} THEN Len(f)
                     ELSE CHOOSE i \in ends : \A j \in ends : i <= j
         IN  SubSeq(f, tell + 1, last)

\* Variant: a last line without newline counts as a line.
LineIsPartialNever(line) == FALSE

\* line 66: not line.endswith("\n")
LineIsPartial(line) == line[Len(line)] # NL

\* Variant: an invalid line leaves _position where it was.
PositionAfterInvalidStuck(pos, after) == pos

\* lines 83-85: a full line of invalid JSON is skipped
PositionAfterInvalid(pos, after) == after

\* Variant: a parsed line leaves _position where it was.
PositionAfterParsedStuck(pos, after) == pos

\* lines 79-82: the line is parsed and _position moves past it
PositionAfterParsed(pos, after) == after

\* The while loop of _read_new_lines.  tell: the file offset at the loop's
\* top (last_pos); pos, fmt: _position and _log_format; acts: actions.
RECURSIVE ReadLoop(_, _, _, _, _)
ReadLoop(f, tell, pos, fmt, acts) ==
    LET line == ReadLine(f, tell)
        here == [actions |-> acts, position |-> pos, log_format |-> fmt]
    IN  IF line = <<>> THEN here
        ELSE IF LineIsPartial(line) THEN here
        ELSE LET after == tell + Len(line)
                 stripped == Strip(line)
             IN  IF stripped = <<>>
                 THEN ReadLoop(f, after, after, fmt, acts)
                 ELSE IF JsonValid(stripped)
                 THEN LET r == ParseEntry(JsonLoads(stripped), fmt)
                      IN  ReadLoop(f, after, PositionAfterParsed(pos, after),
                                   r.log_format,
                                   acts \o ActionsOfLine(tell, r.n))
                 ELSE LET p == PositionAfterInvalid(pos, after)
                      IN  ReadLoop(f, after, p, fmt, acts)

\* LogWatcher._read_new_lines; a missing file raises FileNotFoundError,
\* which is passed over
ReadNewLines ==
    IF ~exists
    THEN [actions |-> <<>>, position |-> position, log_format |-> log_format]
    ELSE ReadLoop(file, position, position, log_format, <<>>)

(***************************************************************************)
(* SpecTail: a writer appends to one log file while LogWatcher.watch tails *)
(* it.  The consumer iterates watch() itself (mode "single") or reads the  *)
(* queue that fill_queue tasks feed in MultiLogWatcher.watch ("multi").    *)
(***************************************************************************)
notTail == <<discVars, forestVars, bufVars, laterVars>>

DiscoveryIdle ==
    /\ pid_to_ppid = <<>> /\ agents = <<>> /\ agents0 = <<>>
    /\ max_hops = DefaultMaxHops /\ idx = 0 /\ dpc = "idle"
    /\ WalkIdle /\ ForestIdle

InitTail ==
    /\ exists \in BOOLEAN
    /\ file = <<>>
    /\ position = 0
    /\ log_format = "None"
    /\ wpc = "start"
    /\ pending = <<>>
    /\ notified = FALSE
    /\ mode \in {"single", "multi"}
    /\ queue = <<>>
    /\ delivered = <<>>
    /\ foreign = 0
    /\ fresh = FALSE
    /\ prev_position = 0
    /\ held = None
    /\ DiscoveryIdle
    /\ BufferIdle
    /\ LaterIdle

\* an event as the consumer sees it: ("action", (action, path))
ActionEvent(a, path) == [kind |-> "action", action |-> a, path |-> path]

\* The agent creates its log file: awatch reports Change.added, which
\* watch() passes over.
CreateFile ==
    /\ ~exists
    /\ exists' = TRUE
    /\ UNCHANGED <<file, position, log_format, wpc, pending, notified, mode,
                   queue, delivered, foreign, fresh, prev_position, held>>
    /\ UNCHANGED notTail

\* The agent appends a byte; once watch() is inside awatch the change is
\* reported as Change.modified.
AppendByte ==
    /\ exists /\ Len(file) < MaxFile
    /\ \E b \in Bytes : file' = Append(file, b)
    /\ notified' = (notified \/ wpc = "tail")
    /\ fresh' = FALSE
    /\ UNCHANGED <<exists, position, log_format, wpc, pending, mode, queue,
                   delivered, foreign, prev_position, held>>
    /\ UNCHANGED notTail

\* a call of _read_new_lines from watch()
ReadCall ==
    LET r == ReadNewLines
    IN  /\ pending' = r.actions
        /\ position' = r.position
        /\ log_format' = r.log_format
        /\ prev_position' = position
        /\ fresh' = TRUE
        /\ held' = IF exists /\ file # <<>> /\ file[Len(file)] # NL
                   THEN r.position ELSE held

\* watch(), line 95: "First, read existing content"
BacklogRead ==
    /\ wpc = "start"
    /\ ReadCall
    /\ wpc' = "backlog"
    /\ UNCHANGED <<exists, file, notified, mode, queue, delivered, foreign>>
    /\ UNCHANGED notTail

\* watch(), lines 96 and 103: yield action; in "multi" fill_queue puts it
\* on the queue (line 209)
YieldAction ==
    /\ pending # <<>>
    /\ pending' = Tail(pending)
    /\ IF mode = "single"
       THEN /\ delivered' = Append(delivered, ActionEvent(Head(pending), "log"))
            /\ queue' = queue
       ELSE /\ queue' = Append(queue, ActionEvent(Head(pending), "log"))
            /\ delivered' = delivered
    /\ UNCHANGED <<exists, file, position, log_format, wpc, notified, mode,
                   foreign, fresh, prev_position, held>>
    /\ UNCHANGED notTail

\* watch(), line 99: the backlog is yielded and awatch is entered
Subscribe ==
    /\ wpc = "backlog" /\ pending = <<>>
    /\ wpc' = "tail"
    /\ UNCHANGED <<exists, file, position, log_format, pending, notified, mode,
                   queue, delivered, foreign, fresh, prev_position, held>>
    /\ UNCHANGED notTail

\* watch(), lines 99-102: awatch hands over a Change.modified of the file
ChangeRead ==
    /\ wpc = "tail" /\ pending = <<>> /\ notified
    /\ ReadCall
    /\ notified' = FALSE
    /\ UNCHANGED <<exists, file, wpc, mode, queue, delivered, foreign>>
    /\ UNCHANGED notTail

\* MultiLogWatcher.watch, lines 226-227: yield await queue.get()
QueueGet ==
    /\ mode = "multi" /\ queue # <<>>
    /\ delivered' = Append(delivered, Head(queue))
    /\ queue' = Tail(queue)
    /\ UNCHANGED <<exists, file, position, log_format, wpc, pending, notified,
                   mode, foreign, fresh, prev_position, held>>
    /\ UNCHANGED notTail

\* fill_queue of another file's watcher puts an action on the shared queue
OtherFilePut ==
    /\ mode = "multi" /\ foreign < MaxForeign
    /\ foreign' = foreign + 1
    /\ queue' = Append(queue, ActionEvent([line |-> 0, part |-> foreign + 1],
                                          "other"))
    /\ UNCHANGED <<exists, file, position, log_format, wpc, pending, notified,
                   mode, delivered, fresh, prev_position, held>>
    /\ UNCHANGED notTail

NextTail ==
    \/ CreateFile \/ AppendByte \/ BacklogRead \/ YieldAction \/ Subscribe
    \/ ChangeRead \/ QueueGet \/ OtherFilePut

SpecTail == InitTail /\ [][NextTail]_vars

(***************************************************************************)
(* The file read as a whole, for reference: its complete lines, each       *)
(* parsed once, in order, with the format detection carried along.         *)
(***************************************************************************)
\* offset o is 0 or lies just past a newline of f
IsLineStart(f, o) == o = 0 \/ (o \in 1..Len(f) /\ f[o] = NL)

NewlinesAfter(f, o) == {i \in (o + 1)..Len(f) : f[i] = NL}

\* the newline that ends the line starting at o
LineEnd(f, o) ==
    CHOOSE i \in NewlinesAfter(f, o) : \A j \in NewlinesAfter(f, o) : i <= j

LineAt(f, o) == SubSeq(f, o + 1, LineEnd(f, o))

\* starts of the complete lines that end at or before offset pos
CompleteStarts(f, pos) ==
    {o \in 0..(pos - 1) :
        /\ IsLineStart(f, o)
        /\ \E i \in NewlinesAfter(f, o) : i <= pos}

\* start of the last line of f, complete or not
LastLineStart(f) ==
    LET S == {o \in 0..(Len(f) - 1) : IsLineStart(f, o)}
    IN  CHOOSE o \in S : \A q \in S : q <= o

\* [fmt, acts] after the first k of the lines that start at starts[1..]
RECURSIVE RefParse(_, _, _)
RefParse(f, starts, k) ==
    IF k = 0 THEN [fmt |-> "None", acts |-> <<>>, count |-> <<>>]
    ELSE LET prev == RefParse(f, starts, k - 1)
             text == Strip(LineAt(f, starts[k]))
         IN  IF JsonValid(text)
             THEN LET r == ParseEntry(JsonLoads(text), prev.fmt)
                  IN  [fmt |-> r.log_format,
                       acts |-> prev.acts \o ActionsOfLine(starts[k], r.n),
                       count |-> Append(prev.count, r.n)]
             ELSE [prev EXCEPT !.count = Append(prev.count, 0)]

\* the actions of all complete lines of f below pos, in file order
RefActions(f, pos) ==
    LET starts == SortedSeq(CompleteStarts(f, pos))
    IN  RefParse(f, starts, Len(starts)).acts

\* how many actions the complete line starting at o makes
RefCount(f, o) ==
    LET starts == SortedSeq(CompleteStarts(f, LineEnd(f, o)))
    IN  RefParse(f, starts, Len(starts)).count[Len(starts)]

\* the actions of the tailed file among a sequence of events
LogActions(events) ==
    LET mine == SelectSeq(events, LAMBDA e : e.path = "log")
    IN  [k \in DOMAIN mine |-> mine[k].action]

\* every action _read_new_lines has returned so far, in order: those the
\* consumer has, those on the queue, those watch() has yet to yield
ReturnedActions == LogActions(delivered) \o LogActions(queue) \o pending

ActionsFrom(acts, o) == SelectSeq(acts, LAMBDA a : a.line = o)

(***************************************************************************)
(* C7.  After every _read_new_lines the saved position is 0 or just past a *)
(* newline; it is not below the position before the call, and the bytes    *)
(* between the two are whole lines; no complete line is left unread, so a  *)
(* blank line or a line of invalid JSON does not hold the reader up, and   *)
(* no action comes from such a line.                                       *)
(***************************************************************************)
C7_PositionAtLineStart ==
    /\ position <= Len(file)
    /\ IsLineStart(file, position)
    /\ IsLineStart(file, prev_position)
    /\ prev_position <= position
    /\ LET consumed == SubSeq(file, prev_position + 1, position)
       IN  consumed = <<>> \/ consumed[Len(consumed)] = NL
    /\ fresh /\ exists => NewlinesAfter(file, position) = {}
    /\ \A k \in DOMAIN ReturnedActions :
          LET o == ReturnedActions[k].line
          IN  /\ o \in CompleteStarts(file, position)
              /\ JsonValid(Strip(LineAt(file, o)))

\* a later read took a blank line and a line of invalid JSON in one go and
\* stopped before a line still being written
C7_Witness ==
    /\ fresh /\ wpc = "tail"
    /\ 0 < prev_position /\ position = prev_position + 3
    /\ file[prev_position + 1] = NL
    /\ file[prev_position + 2] = BRACE
    /\ Len(file) > position

(***************************************************************************)
(* C8.  The partial-write guard.  After a read of a file whose last line   *)
(* has no newline yet, the position is the start of that line and no       *)
(* action of it has been returned.  After a read of a file that ends with  *)
(* a newline the position is the end of the file.  A line that a read left *)
(* unread for want of its newline has, once the position has passed it,    *)
(* had its actions returned exactly once.                                  *)
(***************************************************************************)
C8_PartialWriteGuard ==
    /\ (fresh /\ exists /\ file # <<>> /\ file[Len(file)] # NL) =>
          /\ position = LastLineStart(file)
          /\ held = position
          /\ ActionsFrom(ReturnedActions, position) = <<>>
    /\ (fresh /\ exists /\ file # <<>> /\ file[Len(file)] = NL) =>
          /\ position = Len(file)
          /\ ActionsFrom(ReturnedActions, LastLineStart(file))
                = ActionsOfLine(LastLineStart(file),
                                RefCount(file, LastLineStart(file)))
    /\ held # None =>
          /\ IsLineStart(file, held)
          /\ held <= position
          /\ position = held => ActionsFrom(ReturnedActions, held) = <<>>
          /\ position > held =>
                ActionsFrom(ReturnedActions, held)
                   = ActionsOfLine(held, RefCount(file, held))

\* a read stopped before a line without newline; the newline came; the next
\* read returned the line's two actions and the consumer has them
C8_Witness ==
    /\ fresh /\ wpc = "tail"
    /\ held = prev_position /\ position > held
    /\ file[Len(file)] = NL /\ position = Len(file)
    /\ Len(ActionsFrom(LogActions(delivered), held)) = 2

(***************************************************************************)
(* C9.  For one log file, over the backlog read and all later reads: the   *)
(* actions returned so far are those of the complete lines below the       *)
(* position, each line's actions once, in file order; right after a read   *)
(* they are those of all complete lines of the file; what the consumer has *)
(* received of this file, directly or through the shared queue, is a       *)
(* prefix of them.                                                         *)
(***************************************************************************)
C9_FileOrderExactlyOnce ==
    /\ ReturnedActions = RefActions(file, position)
    /\ fresh /\ exists => ReturnedActions = RefActions(file, Len(file))
    /\ LET got == LogActions(delivered)
       IN  /\ Len(got) <= Len(RefActions(file, position))
           /\ got = SubSeq(RefActions(file, position), 1, Len(got))
           /\ \A i, j \in DOMAIN got :
                 i < j => \/ got[i].line < got[j].line
                          \/ /\ got[i].line = got[j].line
                             /\ got[i].part < got[j].part

\* through the shared queue, with another file's action in between, the
\* consumer has the actions of two lines that came in two reads
C9_Witness ==
    /\ mode = "multi" /\ wpc = "tail"
    /\ Len(delivered) = 3
    /\ delivered[1].path = "log" /\ delivered[2].path = "other"
    /\ delivered[3].path = "log"
    /\ delivered[1].action.line < delivered[3].action.line
    /\ prev_position = delivered[3].action.line

(***************************************************************************)
(* SpecBuffer.  One ActionBuffer of some capacity and a sequence of add    *)
(* calls with arbitrary actions.                                           *)
(***************************************************************************)
MaxCap == 2
MaxAdds == 3

Timestamps == {1, 2}
\* <<tokens_in, tokens_out>>
TokenCounts == {<<0, 0>>, <<1, 2>>}
\* "" stands for None
FilePaths == {"", "a"}
\* <<success, error_message>>, "" for None
Outcomes == {<<TRUE, "">>, <<FALSE, "">>, <<FALSE, "e">>}

Action ==
    {[timestamp |-> t, tokens_in |-> k[1], tokens_out |-> k[2],
      file_path |-> f, success |-> o[1], error_message |-> o[2]] :
        t \in Timestamps, k \in TokenCounts, f \in FilePaths, o \in Outcomes}

\* Variant: a full deque refuses the new item.
DequeAppendKeepOldest(d, maxlen, x) ==
    IF Len(d) >= maxlen THEN d ELSE Append(d, x)

\* deque(maxlen=maxlen).append(x): a full deque drops its leftmost item
DequeAppend(d, maxlen, x) ==
    IF maxlen = 0 THEN d
    ELSE IF Len(d) = maxlen THEN Append(Tail(d), x)
    ELSE Append(d, x)

\* dict.get(key, default)
DictGet(map, key, default) ==
    IF key \in DOMAIN map THEN map[key] ELSE default

\* map[key] = value
DictSet(map, key, value) ==
    [k \in DOMAIN map \cup {key} |-> IF k = key THEN value ELSE map[k]]

BufferRest == <<discVars, forestVars, tailVars, laterVars>>

InitBuffer ==
    /\ max_size \in 0..MaxCap
    /\ actions = <<>>
    /\ file_access_counts = <<>>
    /\ error_messages = <<>>
    /\ stats = SessionStats
    /\ added = <<>>
    /\ DiscoveryIdle
    /\ TailIdle
    /\ LaterIdle

\* Variant: start_time follows the latest action.
StartTimeLatest(start_time, action) == action.timestamp

\* lines 120-121: start_time is set only while it is unset
StartTime(start_time, action) ==
    IF start_time = None THEN action.timestamp ELSE start_time

\* ActionBuffer.add(action)
add(action) ==
    /\ actions' = DequeAppend(actions, max_size, action)
    /\ stats' =
         [start_time |-> StartTime(stats.start_time, action),
          action_count |-> stats.action_count + 1,
          total_tokens |-> stats.total_tokens
                             + action.tokens_in + action.tokens_out,
          error_count |-> IF ~action.success /\ action.error_message # ""
                          THEN stats.error_count + 1
                          ELSE stats.error_count,
          files_touched |-> IF action.file_path # ""
                            THEN stats.files_touched \cup {action.file_path}
                            ELSE stats.files_touched]
    /\ file_access_counts' =
         IF action.file_path # ""
         THEN DictSet(file_access_counts, action.file_path,
                      DictGet(file_access_counts, action.file_path, 0) + 1)
         ELSE file_access_counts
    /\ error_messages' =
         IF ~action.success /\ action.error_message # ""
         THEN Append(error_messages, action.error_message)
         ELSE error_messages
    /\ added' = Append(added, action)
    /\ UNCHANGED <<max_size, BufferRest>>

Add ==
    /\ Len(added) < MaxAdds
    /\ \E action \in Action : add(action)

NextBuffer == Add

SpecBuffer == InitBuffer /\ [][NextBuffer]_vars

\* the last k items of a sequence
LastOf(seq, k) == SubSeq(seq, Len(seq) - k + 1, Len(seq))

Min(a, b) == IF a <= b THEN a ELSE b

(***************************************************************************)
(* C10.  After n adds to a buffer of capacity c the buffer is no longer    *)
(* than c and holds the last min(n, c) of the added actions, oldest first. *)
(***************************************************************************)
C10_BufferKeepsLastActions ==
    /\ Len(actions) <= max_size
    /\ Len(actions) = Min(Len(added), max_size)
    /\ actions = LastOf(added, Min(Len(added), max_size))

\* capacity 2 and three adds of three different actions: the first is gone
C10_Witness ==
    /\ max_size = 2 /\ Len(added) = max_size + 1
    /\ added[1] # added[2] /\ added[2] # added[3] /\ added[1] # added[3]
    /\ actions = <<added[2], added[3]>>

(***************************************************************************)
(* What the add calls so far amount to, counted from the history.          *)
(***************************************************************************)
RECURSIVE TokensOf(_)
TokensOf(seq) ==
    IF seq = <<>> THEN 0
    ELSE seq[1].tokens_in + seq[1].tokens_out + TokensOf(Tail(seq))

Failed(a) == ~a.success /\ a.error_message # ""

TouchedIn(seq) == {seq[i].file_path : i \in DOMAIN seq} \ {""}

AccessesIn(seq, path) == Cardinality({i \in DOMAIN seq : seq[i].file_path = path})

(***************************************************************************)
(* C11.  SessionStats over a sequence of adds: no counter ever decreases,  *)
(* files_touched and the per-file counts only grow, start_time once set    *)
(* stays; and in every state the stats are those of all actions ever       *)
(* added, evicted ones included: action_count is the number of adds,       *)
(* start_time the first action's timestamp.                                *)
(***************************************************************************)
C11_StatsMonotonic ==
    /\ [](/\ stats.action_count = Len(added)
          /\ stats.total_tokens = TokensOf(added)
          /\ stats.error_count = Len(SelectSeq(added, Failed))
          /\ stats.files_touched = TouchedIn(added)
          /\ DOMAIN file_access_counts = TouchedIn(added)
          /\ \A f \in DOMAIN file_access_counts :
                file_access_counts[f] = AccessesIn(added, f)
          /\ stats.start_time =
                IF added = <<>> THEN None ELSE added[1].timestamp)
    /\ [][/\ stats'.action_count >= stats.action_count
          /\ stats'.total_tokens >= stats.total_tokens
          /\ stats'.error_count >= stats.error_count
          /\ stats.files_touched \subseteq stats'.files_touched
          /\ DOMAIN file_access_counts \subseteq DOMAIN file_access_counts'
          /\ \A f \in DOMAIN file_access_counts :
                file_access_counts'[f] >= file_access_counts[f]
          /\ stats.start_time # None => stats'.start_time = stats.start_time]_vars

\* three adds to a buffer of capacity 1: two actions are evicted, and the
\* stats still count all three; the first timestamp differs from the later
C11_Witness ==
    /\ max_size = 1 /\ Len(added) = 3 /\ Len(actions) = 1
    /\ stats.action_count = 3
    /\ added[1].timestamp = 2 /\ added[2].timestamp = 1 /\ added[3].timestamp = 1
    /\ stats.start_time = 2
    /\ Failed(added[1]) /\ stats.error_count = 1
    /\ added[1].file_path = "a" /\ added[2].file_path = "a"
    /\ added[3].file_path = ""
    /\ file_access_counts["a"] = 2
    /\ stats.total_tokens = 6

(***************************************************************************)
(* SpecErrors.  The same buffer under a long run of failing actions.       *)
(***************************************************************************)
MaxErrorAdds == 11

\* failed actions, with and without an error message
ErrorActions ==
    {a \in Action : /\ ~a.success /\ a.timestamp = 1
                    /\ a.tokens_in = 0 /\ a.file_path = ""}

AddFailed ==
    /\ Len(added) < MaxErrorAdds
    /\ \E action \in ErrorActions : add(action)

NextErrors == AddFailed

SpecErrors == InitBuffer /\ [][NextErrors]_vars

\* recent_errors(n=10): the only number the code attaches to the store
RecentErrorsDefault == 10

(***************************************************************************)
(* C12.  The number of retained error messages never exceeds a fixed       *)
(* limit: the larger of the buffer's capacity and the default window of    *)
(* recent_errors.                                                          *)
(***************************************************************************)
C12_ErrorStoreBounded ==
    Len(error_messages) <=
        (IF max_size > RecentErrorsDefault THEN max_size
         ELSE RecentErrorsDefault)

(***************************************************************************)
(* SpecHealth.  calculate_health on a list of warnings that grows by one   *)
(* warning at a time, with the report of the shorter list kept beside the  *)
(* report of the longer one.  Weights are in hundredths.  The code works   *)
(* in IEEE-754 doubles and truncates with int(); where the double result   *)
(* falls below the exact one, the model says so (FloatFallsShort,          *)
(* RotFallsShort), as measured on the inputs the model draws.  The         *)
(* detector score agrees with exact arithmetic on every vector of          *)
(* category scores.  detectors/base.py is not part of the sources: the     *)
(* categories and the severities' impacts are those the specification      *)
(* names.                                                                  *)
(***************************************************************************)
MaxWarnings == 3

Category ==
    {"progress", "errors", "context", "goal", "credential", "injection",
     "exfiltration", "privilege", "network", "supply_chain"}

Severity == {"low", "medium", "high", "critical"}

\* Severity.score_impact
score_impact(severity) ==
    CASE severity = "low" -> 5
      [] severity = "medium" -> 15
      [] severity = "high" -> 30
      [] severity = "critical" -> 60

HEALTH_CATEGORY_WEIGHTS ==
    [c \in {"progress", "errors", "context", "goal"} |->
        CASE c = "progress" -> 35 [] c = "errors" -> 30
          [] c = "context" -> 20 [] c = "goal" -> 15]

SECURITY_CATEGORY_WEIGHTS ==
    [c \in {"credential", "injection", "exfiltration", "privilege",
            "network", "supply_chain"} |->
        CASE c = "credential" -> 20 [] c = "injection" -> 25
          [] c = "exfiltration" -> 20 [] c = "privilege" -> 15
          [] c = "network" -> 10 [] c = "supply_chain" -> 10]

\* {**HEALTH_CATEGORY_WEIGHTS, **SECURITY_CATEGORY_WEIGHTS}
MergedWeights ==
    [c \in DOMAIN HEALTH_CATEGORY_WEIGHTS \cup DOMAIN SECURITY_CATEGORY_WEIGHTS |->
        IF c \in DOMAIN SECURITY_CATEGORY_WEIGHTS
        THEN SECURITY_CATEGORY_WEIGHTS[c] ELSE HEALTH_CATEGORY_WEIGHTS[c]]

DETECTOR_WEIGHT == 60
EFFICIENCY_WEIGHT == 20
ROT_WEIGHT == 20

\* the warnings the model hands in
WarningInputs ==
    {[category |-> c, severity |-> v] :
        c \in {"progress", "context", "injection"}, v \in Severity}
\* efficiency scores handed in: none, one inside 0..100, one above
EfficiencyInputs == {None, 7, 150}
\* rot scores handed in, in hundredths: none, 0.34, 1.0, 1.5
RotInputs == {None, 34, 100, 150}

Max(a, b) == IF a >= b THEN a ELSE b

\* int(x) of Python for x = num / den with den > 0: towards zero
IntOf(num, den) == IF num >= 0 THEN num \div den ELSE -((-num) \div den)

\* lines 154-158: start at 100, deduct the impact of each warning of cat
Deducted(ws, cat) ==
    LET RECURSIVE Deduct(_, _)
        Deduct(score, k) ==
            IF k > Len(ws) THEN score
            ELSE Deduct(IF ws[k].category = cat
                        THEN score - score_impact(ws[k].severity)
                        ELSE score, k + 1)
    IN  Deduct(100, 1)

\* Variant: the floor is left out.
CategoryScoreNoFloor(ws, cat) == Deducted(ws, cat)

\* line 160: score = max(0, score)
CategoryScoreOf(ws, cat) == Max(0, Deducted(ws, cat))

\* sum of f over a finite set of categories
RECURSIVE SumOver(_, _)
SumOver(S, f) ==
    IF S = {} THEN 0
    ELSE LET c == CHOOSE x \in S : TRUE
         IN  f[c] + SumOver(S \ {c}, f)

\* lines 168-176: the weighted detector-category score
DetectorScore(category_scores, all_weights) ==
    LET cats == DOMAIN all_weights \cap DOMAIN category_scores
        weighted_score == SumOver(cats, [c \in cats |->
                                     category_scores[c] * all_weights[c]])
        total_weight == SumOver(cats, all_weights)
    IN  IF total_weight > 0 THEN IntOf(weighted_score, total_weight) ELSE 100

\* rot scores k/100 for which the double (1.0 - k/100) * 100 lies just
\* below the integer 100 - k
RotFallsShort == {34, 55, 56, 67, 68, 78, 79, 80, 81, 89, 90, 91, 92, 93}

\* line 185: int((1.0 - rot_score) * 100)
RotHealth(k) ==
    IF k \in RotFallsShort THEN 100 - k - 1 ELSE IntOf((100 - k) * 100, 100)

\* the inputs of the model for which the double sum
\* detector * 0.60 + eff * 0.20 + rot_health * 0.20 lies just below the
\* integer it equals exactly
FloatFallsShort(detector_score, eff, rot_health) ==
    /\ eff = 7 /\ rot_health \in {0, -50}
    /\ detector_score \in {31, 36, 41, 46, 51, 96}

\* lines 187-191: int(detector * 0.60 + eff * 0.20 + rot_health * 0.20)
Blend(detector_score, eff, rot_health) ==
    LET num == detector_score * DETECTOR_WEIGHT + eff * EFFICIENCY_WEIGHT
                 + rot_health * ROT_WEIGHT
    IN  IF FloatFallsShort(detector_score, eff, rot_health)
        THEN IntOf(num, 100) - 1 ELSE IntOf(num, 100)

\* calculate_health(warnings, include_security, efficiency_score, rot_score)
calculate_health(ws, security, eff_in, rot_in) ==
    LET all_weights == IF security THEN MergedWeights
                       ELSE HEALTH_CATEGORY_WEIGHTS
        category_scores == [c \in Category |-> CategoryScoreOf(ws, c)]
        detector_score == DetectorScore(category_scores, all_weights)
        has_extras == eff_in # None \/ rot_in # None
        eff == IF eff_in # None THEN eff_in ELSE 100
        rot_health == IF rot_in # None THEN RotHealth(rot_in) ELSE 100
        overall_score ==
            IF has_extras
            THEN Max(0, Min(100, Blend(detector_score, eff, rot_health)))
            ELSE detector_score
    IN  [overall_score |-> overall_score,
         category_scores |-> category_scores,
         warnings |-> ws]

HealthRest == <<discVars, forestVars, tailVars, bufVars, effVars, teamVars,
                cliVars, lifeVars, rotVars, watchVars>>

InitHealth ==
    /\ warnings = <<>>
    /\ include_security \in BOOLEAN
    /\ efficiency_score \in EfficiencyInputs
    /\ rot_score \in RotInputs
    /\ report = calculate_health(<<>>, include_security, efficiency_score,
                                 rot_score)
    /\ prev_report = report
    /\ DiscoveryIdle /\ TailIdle /\ BufferIdle /\ EffIdle
    /\ TeamIdle /\ CliIdle /\ LifeIdle /\ RotIdle /\ WatchIdle

\* a detector finds one more warning; the health is calculated again
AddWarning ==
    /\ Len(warnings) < MaxWarnings
    /\ \E w \in WarningInputs :
          /\ warnings' = Append(warnings, w)
          /\ report' = calculate_health(Append(warnings, w), include_security,
                                        efficiency_score, rot_score)
    /\ prev_report' = report
    /\ UNCHANGED <<include_security, efficiency_score, rot_score, HealthRest>>

NextHealth == AddWarning

SpecHealth == InitHealth /\ [][NextHealth]_vars

\* every score of report r lies in 0..100
ScoresInRange(r) ==
    /\ r.overall_score \in 0..100
    /\ \A c \in Category : r.category_scores[c] \in 0..100

\* no score of report r is greater than the same score of report q
NoScoreGreater(r, q) ==
    /\ r.overall_score <= q.overall_score
    /\ \A c \in Category : r.category_scores[c] <= q.category_scores[c]

(***************************************************************************)
(* C13.  For every list of warnings, both values of include_security and   *)
(* every supplied efficiency and rot score: all category scores and the    *)
(* overall score of calculate_health lie in 0..100; the report of a list   *)
(* with one more warning has no score greater than the report of the list  *)
(* without it; with no warnings every category scores 100, and the overall *)
(* score is 100 when no efficiency or rot score is supplied, else the      *)
(* clamped blend of 100 with the supplied scores.                          *)
(***************************************************************************)
C13_ScoresBoundedMonotone ==
    /\ ScoresInRange(report)
    /\ NoScoreGreater(report, prev_report)
    /\ warnings = <<>> =>
          /\ \A c \in Category : report.category_scores[c] = 100
          /\ report.overall_score =
                IF efficiency_score = None /\ rot_score = None THEN 100
                ELSE Max(0, Min(100,
                        Blend(100,
                              IF efficiency_score = None THEN 100
                              ELSE efficiency_score,
                              IF rot_score = None THEN 100
                              ELSE RotHealth(rot_score))))

\* a second critical warning takes a category from 40 to the floor and the
\* overall score down with it
C13_Witness ==
    /\ Len(warnings) = 2
    /\ prev_report.category_scores["progress"] = 40
    /\ report.category_scores["progress"] = 0
    /\ report.overall_score < prev_report.overall_score
    /\ efficiency_score = 7 /\ rot_score = 34 /\ include_security

\* C13 as stated: the same, with the overall score 100 whenever there are no
\* warnings, whatever efficiency or rot score is supplied.
C13_NoWarningsScoreHundred ==
    /\ ScoresInRange(report)
    /\ NoScoreGreater(report, prev_report)
    /\ warnings = <<>> => report.overall_score = 100

\* n is an integer nearest to num / den (den > 0); a tie allows both
IsNearest(n, num, den) ==
    LET diff == n * den - num
    IN  2 * (IF diff >= 0 THEN diff ELSE -diff) <= den

\* n is num / den clamped to [0, 100] and rounded to the nearest integer
IsClampedNearest(n, num, den) ==
    IF num <= 0 THEN n = 0
    ELSE IF num >= 100 * den THEN n = 100
    ELSE IsNearest(n, num, den)

(***************************************************************************)
(* C14.  The overall score is the specified formula rounded to the nearest *)
(* integer: without extras the weight-normalised average of the category   *)
(* scores over the weighted categories; with an efficiency or rot score    *)
(* supplied, average * 0.60 + efficiency * 0.20 + rot_health * 0.20 with   *)
(* rot_health = (1 - rot_score) * 100, clamped to [0, 100].                *)
(***************************************************************************)
C14_OverallIsRoundedFormula ==
    LET all_weights == IF include_security THEN MergedWeights
                       ELSE HEALTH_CATEGORY_WEIGHTS
        cats == DOMAIN all_weights
        weighted == SumOver(cats, [c \in cats |->
                        report.category_scores[c] * all_weights[c]])
        total == SumOver(cats, all_weights)
        eff == IF efficiency_score = None THEN 100 ELSE efficiency_score
        rot_health == IF rot_score = None THEN 100 ELSE 100 - rot_score
    IN  IF efficiency_score = None /\ rot_score = None
        THEN IsNearest(report.overall_score, weighted, total)
        ELSE IsClampedNearest(report.overall_score,
                 DETECTOR_WEIGHT * weighted
                    + (EFFICIENCY_WEIGHT * eff + ROT_WEIGHT * rot_health) * total,
                 100 * total)

(***************************************************************************)
(* SpecEfficiency.  calculate_efficiency on a list of warnings and a       *)
(* buffer that both grow.  A warning carries its category, its signal and  *)
(* the one detail the scorer reads from it (usage_percent, the number of   *)
(* forgotten_files, rediscovery_count).  Penalties are kept as exact       *)
(* fractions; where the code's double arithmetic ends just below the exact *)
(* integer and int() drops it, the model says so (EffFloatFallsShort, as   *)
(* measured on the inputs the model draws).                                *)
(***************************************************************************)
MaxEffWarnings == 2
MaxEffActions == 4

EffWarningInputs ==
    {[category |-> "context", signal |-> "context_pressure", value |-> 1],
     [category |-> "context", signal |-> "context_pressure", value |-> 50],
     [category |-> "context", signal |-> "context_critical", value |-> 100],
     [category |-> "context", signal |-> "context_rot", value |-> 1],
     [category |-> "context", signal |-> "context_rot", value |-> 6],
     [category |-> "context", signal |-> "rediscovery", value |-> 1],
     [category |-> "context", signal |-> "rediscovery", value |-> 5],
     [category |-> "errors", signal |-> "context_rot", value |-> 6]}

EffActionInputs ==
    {[tool_type |-> "read", success |-> TRUE, file_path |-> "a"],
     [tool_type |-> "read", success |-> TRUE, file_path |-> "b"],
     [tool_type |-> "bash", success |-> FALSE, file_path |-> ""]}

\* for w in warnings: if w.category == CONTEXT and w.signal in signals:
\* take its detail and break; else the default 0
RECURSIVE FirstDetail(_, _)
FirstDetail(ws, signals) ==
    IF ws = <<>> THEN 0
    ELSE IF ws[1].category = "context" /\ ws[1].signal \in signals
         THEN ws[1].value
         ELSE FirstDetail(Tail(ws), signals)

\* lines 279-281: failed bash commands
FailedBashes(acts) ==
    Cardinality({i \in DOMAIN acts :
                    acts[i].tool_type = "bash" /\ ~acts[i].success})

DuplicateWindow == 50

\* Variant: no read counts as a duplicate.
DuplicateReadsNone(acts) == 0

\* lines 284-292: reads of a file already read in the last 50 actions
DuplicateReads(acts) ==
    Cardinality({i \in DOMAIN acts :
        /\ acts[i].tool_type = "read" /\ acts[i].file_path # ""
        /\ \E j \in Max(1, i - DuplicateWindow)..(i - 1) :
              /\ acts[j].tool_type = "read"
              /\ acts[j].file_path = acts[i].file_path})

\* min(x, cap)
Capped(x, cap) == IF x < cap THEN x ELSE cap

\* lines 294-297: min((wasted / total) / 0.3, 1.0) as <<numerator, denominator>>
WastePenalty(wasted, total) ==
    IF total = 0 \/ wasted = 0 THEN <<0, 1>>
    ELSE IF 10 * wasted >= 3 * total THEN <<1, 1>>
    ELSE <<10 * wasted, 3 * total>>

\* the penalties for which 100 * (1.0 - total_penalty) in doubles lies just
\* below the integer it equals exactly: usage percent, forgotten files
\* (capped at 5), rediscoveries (capped at 4), waste penalty
EffFloatFallsShort ==
    {<<0, 5, 4, <<1, 1>> >>, <<50, 5, 1, <<0, 1>> >>, <<50, 5, 1, <<1, 1>> >>,
     <<100, 0, 4, <<0, 1>> >>, <<100, 0, 4, <<1, 1>> >>,
     <<100, 5, 0, <<1, 1>> >>}

\* lines 300-307: int(100 * (1.0 - total_penalty)) clamped to [0, 100], with
\* weights 0.45, 0.20, 0.10, 0.25; usage in percent, rot in fifths,
\* rediscovery in quarters, waste a fraction
EfficiencyScore(usage, rot, red, waste) ==
    LET den == 20 * waste[2]
        num == 100 * den - 9 * usage * waste[2] - 80 * rot * waste[2]
                 - 50 * red * waste[2] - 500 * waste[1]
        raw == IF <<usage, rot, red, waste>> \in EffFloatFallsShort
               THEN IntOf(num, den) - 1 ELSE IntOf(num, den)
    IN  Max(0, Min(100, raw))

\* calculate_efficiency(warnings, buffer)
calculate_efficiency(ws, acts) ==
    LET usage == FirstDetail(ws, {"context_pressure", "context_critical"})
        rot_count == FirstDetail(ws, {"context_rot"})
        rediscovery_count == FirstDetail(ws, {"rediscovery"})
        wasted == FailedBashes(acts) + DuplicateReads(acts)
        score == EfficiencyScore(usage, Capped(rot_count, 5),
                                 Capped(rediscovery_count, 4),
                                 WastePenalty(wasted, Len(acts)))
    IN  [score |-> score,
         status |-> IF score >= 70 THEN "efficient"
                    ELSE IF score >= 40 THEN "degraded" ELSE "wasteful",
         recommendation |->
             IF score >= 80 THEN "healthy"
             ELSE IF score >= 60 THEN "declining"
             ELSE IF score >= 40 THEN "degraded" ELSE "fresh"]

EffRest == <<discVars, forestVars, tailVars, bufVars, healthVars, teamVars,
             cliVars, lifeVars, rotVars, watchVars>>

InitEfficiency ==
    /\ eff_warnings = <<>>
    /\ eff_actions = <<>>
    /\ eff_report = calculate_efficiency(<<>>, <<>>)
    /\ DiscoveryIdle /\ TailIdle /\ BufferIdle /\ HealthIdle
    /\ TeamIdle /\ CliIdle /\ LifeIdle /\ RotIdle /\ WatchIdle

\* a detector reports one more warning; the efficiency is calculated again
AddEffWarning ==
    /\ Len(eff_warnings) < MaxEffWarnings
    /\ \E w \in EffWarningInputs :
          /\ eff_warnings' = Append(eff_warnings, w)
          /\ eff_report' = calculate_efficiency(Append(eff_warnings, w),
                                                eff_actions)
    /\ UNCHANGED <<eff_actions, EffRest>>

\* the buffer takes one more action; the efficiency is calculated again
AddEffAction ==
    /\ Len(eff_actions) < MaxEffActions
    /\ \E a \in EffActionInputs :
          /\ eff_actions' = Append(eff_actions, a)
          /\ eff_report' = calculate_efficiency(eff_warnings,
                                                Append(eff_actions, a))
    /\ UNCHANGED <<eff_warnings, EffRest>>

NextEfficiency == AddEffWarning \/ AddEffAction

SpecEfficiency == InitEfficiency /\ [][NextEfficiency]_vars

(***************************************************************************)
(* The four penalties of a call, read off its inputs.                      *)
(***************************************************************************)
\* the detail of the first context warning with one of the signals, else 0
RefDetail(ws, signals) ==
    LET hits == {i \in DOMAIN ws :
                    ws[i].category = "context" /\ ws[i].signal \in signals}
    IN  IF hits = {} THEN 0
        ELSE ws[CHOOSE i \in hits : \A j \in hits : i <= j].value

RefUsage == RefDetail(eff_warnings, {"context_pressure", "context_critical"})
RefRot == Capped(RefDetail(eff_warnings, {"context_rot"}), 5)
RefRed == Capped(RefDetail(eff_warnings, {"rediscovery"}), 4)

\* failed bash commands, and reads of a path that an earlier read had
RefWasted ==
    Cardinality({i \in DOMAIN eff_actions :
        \/ eff_actions[i].tool_type = "bash" /\ ~eff_actions[i].success
        \/ /\ eff_actions[i].tool_type = "read"
           /\ \E j \in 1..(i - 1) :
                 /\ eff_actions[j].tool_type = "read"
                 /\ eff_actions[j].file_path = eff_actions[i].file_path})

RefWaste == WastePenalty(RefWasted, Len(eff_actions))

\* fraction a is at least fraction b
FracGeq(a, b) == a[1] * b[2] >= b[1] * a[2]

UsageValues == {0, 1, 50, 100}
RotValues == {0, 1, 5}
RedValues == {0, 1, 4}
WasteValues ==
    {WastePenalty(w, n) : w \in 0..(MaxEffActions + 1), n \in 0..(MaxEffActions + 1)}

(***************************************************************************)
(* C15.  The efficiency score is 100 exactly when the pressure, rot,       *)
(* rediscovery and waste penalties are all zero; with three penalties held *)
(* fixed, a higher value of the fourth never gives a higher score; a       *)
(* buffer of successful reads of distinct files with no warnings scores    *)
(* 100 and is "efficient".                                                 *)
(***************************************************************************)
C15_EfficiencyFullIffNoPenalty ==
    /\ eff_report.score = EfficiencyScore(RefUsage, RefRot, RefRed, RefWaste)
    /\ eff_report.score = 100 <=>
          (RefUsage = 0 /\ RefRot = 0 /\ RefRed = 0 /\ RefWaste[1] = 0)
    /\ \A u \in UsageValues : u >= RefUsage =>
          EfficiencyScore(u, RefRot, RefRed, RefWaste) <= eff_report.score
    /\ \A r \in RotValues : r >= RefRot =>
          EfficiencyScore(RefUsage, r, RefRed, RefWaste) <= eff_report.score
    /\ \A d \in RedValues : d >= RefRed =>
          EfficiencyScore(RefUsage, RefRot, d, RefWaste) <= eff_report.score
    /\ \A w \in WasteValues : FracGeq(w, RefWaste) =>
          EfficiencyScore(RefUsage, RefRot, RefRed, w) <= eff_report.score
    /\ (/\ eff_warnings = <<>>
        /\ \A i \in DOMAIN eff_actions :
              /\ eff_actions[i].tool_type = "read" /\ eff_actions[i].success
              /\ \A j \in DOMAIN eff_actions :
                    j # i => eff_actions[j].file_path # eff_actions[i].file_path)
          => eff_report.score = 100 /\ eff_report.status = "efficient"

\* two successful reads of two files, no warnings: full score
C15_Witness ==
    /\ eff_warnings = <<>> /\ Len(eff_actions) = 2
    /\ eff_actions[1].tool_type = "read" /\ eff_actions[2].tool_type = "read"
    /\ eff_actions[1].file_path # eff_actions[2].file_path
    /\ eff_report.score = 100 /\ eff_report.status = "efficient"

(***************************************************************************)
(* SpecTeam.  calculate_team_health on a map of member reports that gains  *)
(* the root and then subagents.  The function is not part of the sources   *)
(* at hand; it is modelled as the specification's section on team health   *)
(* and the comments of tests/test_teams.py describe it.  A member's report *)
(* is reduced to its overall score.                                        *)
(***************************************************************************)
MaxSubagents == 2

\* the root has pid 1, the subagents the pids after it
SubagentPids == 2..(MaxSubagents + 1)
MemberScores == {25, 30, 39, 40, 59, 60, 79, 80, 90}

\* the scores of the subagents: every member but the root
SubagentsOf(members, root) == DOMAIN members \ {root}

RECURSIVE SumScores(_, _)
SumScores(members, pids) ==
    IF pids = {} THEN 0
    ELSE LET q == CHOOSE x \in pids : TRUE
         IN  members[q] + SumScores(members, pids \ {q})

\* root * 0.50 + mean(subagents) * 0.50, truncated; the root alone counts whole
TeamWeighted(members, root) ==
    LET subs == SubagentsOf(members, root)
        n == Cardinality(subs)
    IN  IF n = 0 THEN members[root]
        ELSE IntOf(members[root] * n + SumScores(members, subs), 2 * n)

\* Variant: half of the subagents is already a majority.
CascadeFailureAtHalf(members, root) ==
    LET subs == SubagentsOf(members, root)
    IN  /\ subs # {}
        /\ 2 * Cardinality({q \in subs : members[q] < 60}) >= Cardinality(subs)

\* team_cascade_failure: a majority of the subagents scores below 60
CascadeFailure(members, root) ==
    LET subs == SubagentsOf(members, root)
    IN  2 * Cardinality({q \in subs : members[q] < 60}) > Cardinality(subs)

\* Variant: distress is reported only when the cascade is not.
SubagentDistressAlone(members, root) ==
    /\ members[root] >= 80
    /\ \E q \in SubagentsOf(members, root) : members[q] < 40
    /\ ~(2 * Cardinality({q \in SubagentsOf(members, root) : members[q] < 60})
            > Cardinality(SubagentsOf(members, root)))

\* subagent_distress: the root is healthy, a subagent is critical
SubagentDistress(members, root) ==
    /\ members[root] >= 80
    /\ \E q \in SubagentsOf(members, root) : members[q] < 40

\* Variant: the penalties are not deducted.
TeamScoreNoPenalty(weighted, signals) == Max(0, Min(100, weighted))

\* each cross-agent warning deducts its severity's impact; clamp to [0, 100]
TeamScore(weighted, signals) ==
    LET RECURSIVE Deduct(_, _)
        Deduct(score, k) ==
            IF k > Len(signals) THEN score
            ELSE Deduct(score - score_impact(
                            IF signals[k] = "team_cascade_failure"
                            THEN "high" ELSE "medium"), k + 1)
    IN  Max(0, Min(100, Deduct(weighted, 1)))

\* calculate_team_health(member_reports, root_pid)
calculate_team_health(members, root) ==
    IF DOMAIN members = {}
    THEN [overall_score |-> 100, cross_agent_warnings |-> <<>>,
          member_count |-> 0, subagent_count |-> 0]
    ELSE LET signals ==
                 (IF CascadeFailure(members, root)
                  THEN <<"team_cascade_failure">> ELSE <<>>)
                 \o (IF SubagentDistress(members, root)
                     THEN <<"subagent_distress">> ELSE <<>>)
         IN  [overall_score |-> TeamScore(TeamWeighted(members, root), signals),
              cross_agent_warnings |-> signals,
              member_count |-> Cardinality(DOMAIN members),
              subagent_count |-> Cardinality(SubagentsOf(members, root))]

TeamRest == <<discVars, forestVars, tailVars, bufVars, healthVars, effVars,
              cliVars, lifeVars, rotVars, watchVars>>

InitTeam ==
    /\ member_reports = <<>>
    /\ root_pid = 1
    /\ team_report = calculate_team_health(<<>>, 1)
    /\ DiscoveryIdle /\ TailIdle /\ BufferIdle /\ HealthIdle /\ EffIdle
    /\ CliIdle /\ LifeIdle /\ RotIdle /\ WatchIdle

\* map[key] = value, then the team health is calculated again
AddMember(pid, score) ==
    /\ member_reports' = DictSet(member_reports, pid, score)
    /\ team_report' = calculate_team_health(
                          DictSet(member_reports, pid, score), root_pid)
    /\ UNCHANGED <<root_pid, TeamRest>>

\* the root's report arrives
AddRoot ==
    /\ member_reports = <<>>
    /\ \E score \in MemberScores : AddMember(root_pid, score)

\* a subagent's report arrives
AddSubagent ==
    /\ root_pid \in DOMAIN member_reports
    /\ \E pid \in SubagentPids \ DOMAIN member_reports, score \in MemberScores :
          AddMember(pid, score)

NextTeam == AddRoot \/ AddSubagent

SpecTeam == InitTeam /\ [][NextTeam]_vars

(***************************************************************************)
(* Reference notions for the team claims, stated on the member map and the *)
(* report alone.                                                           *)
(***************************************************************************)
Signals == {team_report.cross_agent_warnings[k] :
                k \in 1..Len(team_report.cross_agent_warnings)}

Subagents == DOMAIN member_reports \ {root_pid}

\* the impacts of the emitted cross-agent warnings: HIGH 30, MEDIUM 15
SignalImpact ==
    (IF "team_cascade_failure" \in Signals THEN 30 ELSE 0)
    + (IF "subagent_distress" \in Signals THEN 15 ELSE 0)

\* w is 0.50 * root + 0.50 * mean(subagents) with its fraction dropped
IsWeighted(w) ==
    LET n == Cardinality(Subagents)
        total == member_reports[root_pid] * n
                 + SumScores(member_reports, Subagents)
    IN  2 * n * w <= total /\ total < 2 * n * (w + 1)

\* C16: the team score is 100 without members, the root's score with the
\* root alone, and with subagents the whole part of 0.50 * root + 0.50 * mean
\* of the subagents less the impact of each emitted cross-agent warning,
\* clamped to [0, 100].
C16_TeamScoreFormula ==
    /\ team_report.overall_score \in 0..100
    /\ DOMAIN member_reports = {} => team_report.overall_score = 100
    /\ DOMAIN member_reports = {root_pid} =>
           team_report.overall_score = member_reports[root_pid]
    /\ Subagents # {} /\ root_pid \in DOMAIN member_reports =>
           \E w \in 0..100 :
              /\ IsWeighted(w)
              /\ team_report.overall_score = Max(0, Min(100, w - SignalImpact))

C16_Witness ==
    /\ Cardinality(Subagents) = 2
    /\ Signals = {"team_cascade_failure"}
    /\ team_report.overall_score > 0
    /\ \E w \in 0..100 : IsWeighted(w) /\ team_report.overall_score = w - 30

\* C17: team_cascade_failure is emitted exactly when more than half of the
\* subagents score below 60, subagent_distress exactly when the root scores
\* at least 80 and some subagent below 40, and nothing is emitted when every
\* member scores at least 80.
C17_CrossAgentWarnings ==
    root_pid \in DOMAIN member_reports =>
        /\ "team_cascade_failure" \in Signals <=>
               2 * Cardinality({q \in Subagents : member_reports[q] < 60})
                   > Cardinality(Subagents)
        /\ "subagent_distress" \in Signals <=>
               /\ member_reports[root_pid] >= 80
               /\ \E q \in Subagents : member_reports[q] < 40
        /\ (\A q \in DOMAIN member_reports : member_reports[q] >= 80) =>
               Signals = {}

C17_Witness ==
    /\ Cardinality(Subagents) = 2
    /\ Cardinality({q \in Subagents : member_reports[q] < 60}) = 1
    /\ member_reports[root_pid] >= 80
    /\ Signals = {"subagent_distress"}

\* scenario S2: root 90, subagents 30 and 25
CascadeTeam ==
    /\ DOMAIN member_reports = {root_pid, 2, 3}
    /\ member_reports[root_pid] = 90
    /\ {member_reports[2], member_reports[3]} = {30, 25}

\* C18: in scenario S2 the weighted score before penalties is 58,
\* team_cascade_failure is emitted and so is subagent_distress, and the final
\* team score is 58 - 30 - 15 = 13, below 58.
C18_CascadeTeamScenario ==
    CascadeTeam =>
        /\ IsWeighted(58)
        /\ "team_cascade_failure" \in Signals
        /\ "subagent_distress" \in Signals
        /\ team_report.overall_score = 13
        /\ team_report.overall_score < 58

C18_Witness == CascadeTeam /\ Len(team_report.cross_agent_warnings) = 2

\* C18 as stated: in scenario S2 the weighted score before penalties is 58,
\* team_cascade_failure is emitted, the final score is below 58 and
\* subagent_distress is not emitted.
C18_DistressNotEmitted ==
    CascadeTeam =>
        /\ IsWeighted(58)
        /\ "team_cascade_failure" \in Signals
        /\ team_report.overall_score < 58
        /\ "subagent_distress" \notin Signals

(***************************************************************************)
(* SpecCheck.  One run of the check command: find the log, parse it, run   *)
(* the detectors, calculate the health, print the report, exit.  The       *)
(* detectors' findings are drawn from the warning lists of SpecHealth.     *)
(***************************************************************************)
\* registry.check_all(buffer): any list of at most MaxWarnings warnings
WarningLists == UNION {[1..n -> WarningInputs] : n \in 0..MaxWarnings}

\* HealthReport.status
HealthStatus(score) ==
    IF score >= 80 THEN "healthy"
    ELSE IF score >= 50 THEN "warning"
    ELSE "critical"

\* the exit code check derives from the overall score
ExitCodeOf(score) ==
    IF score < 40 THEN 2
    ELSE IF score < 60 THEN 1
    ELSE 0

CheckRest == <<discVars, forestVars, tailVars, bufVars, effVars, teamVars,
               lifeVars, rotVars, watchVars, efficiency_score, rot_score,
               report, prev_report>>

InitCheck ==
    /\ cpc = "start"
    /\ check_report = <<>>
    /\ exit_code = None
    /\ warnings = <<>>
    /\ include_security \in BOOLEAN
    /\ efficiency_score = None /\ rot_score = None
    /\ report = <<>> /\ prev_report = <<>>
    /\ DiscoveryIdle /\ TailIdle /\ BufferIdle /\ EffIdle
    /\ TeamIdle /\ LifeIdle /\ RotIdle /\ WatchIdle

\* find_latest_session() returns None: message to stderr, sys.exit(1)
NoLogFound ==
    /\ cpc = "start"
    /\ cpc' = "exited"
    /\ exit_code' = 1
    /\ UNCHANGED <<check_report, warnings, include_security, CheckRest>>

\* the log is parsed into the buffer
ParseLog ==
    /\ cpc = "start"
    /\ cpc' = "parsed"
    /\ UNCHANGED <<check_report, exit_code, warnings, include_security,
                   CheckRest>>

\* len(buffer) == 0: message to stderr, sys.exit(1)
NoActions ==
    /\ cpc = "parsed"
    /\ cpc' = "exited"
    /\ exit_code' = 1
    /\ UNCHANGED <<check_report, warnings, include_security, CheckRest>>

\* check_all, calculate_health, and the report is printed with its status
PrintReport ==
    /\ cpc = "parsed"
    /\ \E ws \in WarningLists :
          LET r == calculate_health(ws, include_security, None, None)
          IN  /\ warnings' = ws
              /\ check_report' = [overall_score |-> r.overall_score,
                                  status |-> HealthStatus(r.overall_score)]
    /\ cpc' = "printed"
    /\ UNCHANGED <<exit_code, include_security, CheckRest>>

\* sys.exit by the score thresholds
ExitByScore ==
    /\ cpc = "printed"
    /\ cpc' = "exited"
    /\ exit_code' = ExitCodeOf(check_report.overall_score)
    /\ UNCHANGED <<check_report, warnings, include_security, CheckRest>>

NextCheck == NoLogFound \/ ParseLog \/ NoActions \/ PrintReport \/ ExitByScore

SpecCheck == InitCheck /\ [][NextCheck]_vars

\* C19: when check exits after printing a report, its exit code agrees with
\* the status of that report: 0 exactly when the status is healthy, 1
\* exactly when it is warning, 2 exactly when it is critical.
C19_ExitCodeMatchesStatus ==
    cpc = "exited" /\ check_report # <<>> =>
        /\ exit_code = 0 <=> check_report.status = "healthy"
        /\ exit_code = 1 <=> check_report.status = "warning"
        /\ exit_code = 2 <=> check_report.status = "critical"

(***************************************************************************)
(* SpecLifecycle.  MultiLogWatcher in process mode: from_processes, then   *)
(* any number of refresh_processes calls, each with the processes found    *)
(* by a new discovery and the log files on disk at that moment.            *)
(***************************************************************************)
MaxProcs == 2

LogPaths == {"a.jsonl", "b.log"}

\* log_file of an agent whose log was not resolved (None in the source)
NoLogFile == ""

\* a discovered agent, as discover_agents hands it to the watcher
LiveProcess(p, log, ppid, parent, d, team) ==
    [pid |-> p, agent_type |-> "claude-code", working_directory |-> "/w",
     log_file |-> log, session_id |-> "s", cpu_percent |-> 12,
     memory_mb |-> 340, uptime |-> "01:00", command |-> "claude",
     parent_pid |-> ppid, parent_agent_pid |-> parent, depth |-> d,
     team_id |-> team]

\* a root, its subagent with and without a resolved log file, and a second
\* root that resolves to the first root's log file
ProcessInputs ==
    { LiveProcess(1, "a.jsonl", 0, None, 0, 1),
      LiveProcess(2, "b.log", 1, 1, 1, 1),
      LiveProcess(2, NoLogFile, 1, 1, 1, 1),
      LiveProcess(3, "a.jsonl", 0, None, 0, 3) }

\* the lists of at most MaxProcs processes with distinct pids
Snapshots ==
    UNION {{ps \in [1..n -> ProcessInputs] :
                \A i, j \in 1..n : i # j => ps[i].pid # ps[j].pid} :
           n \in 0..MaxProcs}

\* AgentProcess(pid=old_proc.pid, ..., command="(stopped)"): the fields
\* not passed take the dataclass defaults
StoppedProcess(old) ==
    [pid |-> old.pid, agent_type |-> old.agent_type,
     working_directory |-> old.working_directory, log_file |-> old.log_file,
     session_id |-> old.session_id, cpu_percent |-> 0, memory_mb |-> 0,
     uptime |-> old.uptime, command |-> "(stopped)",
     parent_pid |-> None, parent_agent_pid |-> None, depth |-> 0,
     team_id |-> None]

\* proc.log_file and proc.log_file.exists()
HasLog(proc, disk) == proc.log_file # NoLogFile /\ proc.log_file \in disk

\* from_processes: the loop over processes
RECURSIVE from_processes(_, _, _, _)
from_processes(meta, processes, disk, k) ==
    IF k > Len(processes) THEN meta
    ELSE from_processes(
             IF HasLog(processes[k], disk)
             THEN DictSet(meta, processes[k].log_file, processes[k])
             ELSE meta,
             processes, disk, k + 1)

\* refresh_processes: the loop over processes; st = [meta, new, active]
RECURSIVE RefreshLoop(_, _, _, _)
RefreshLoop(st, processes, disk, k) ==
    IF k > Len(processes) THEN st
    ELSE LET proc == processes[k]
         IN  RefreshLoop(
                 IF HasLog(proc, disk)
                 THEN [meta |-> DictSet(st.meta, proc.log_file, proc),
                       new |-> IF proc.log_file \notin DOMAIN st.meta
                               THEN Append(st.new, proc) ELSE st.new,
                       active |-> st.active \cup {proc.log_file}]
                 ELSE st,
                 processes, disk, k + 1)

\* refresh_processes(processes): the loop, then the stopped paths
refresh_processes(meta, processes, disk) ==
    LET st == RefreshLoop([meta |-> meta, new |-> <<>>, active |-> {}],
                          processes, disk, 1)
    IN  [meta |-> [path \in DOMAIN st.meta |->
                       IF path \in st.active THEN st.meta[path]
                       ELSE StoppedProcess(st.meta[path])],
         new |-> st.new]

LifeRest == <<discVars, forestVars, tailVars, bufVars, healthVars, effVars,
              teamVars, cliVars, rotVars, watchVars>>

InitLifecycle ==
    /\ snapshot \in Snapshots
    /\ on_disk \in SUBSET LogPaths
    /\ process_meta = from_processes(<<>>, snapshot, on_disk, 1)
    /\ prev_meta = <<>>
    /\ new_agents = <<>>
    /\ DiscoveryIdle /\ TailIdle /\ BufferIdle /\ HealthIdle /\ EffIdle
    /\ TeamIdle /\ CliIdle /\ RotIdle /\ WatchIdle

\* a call of refresh_processes(processes) with the files of disk existing
RefreshWith(processes, disk) ==
    LET r == refresh_processes(process_meta, processes, disk)
    IN  /\ process_meta' = r.meta
        /\ new_agents' = r.new
        /\ prev_meta' = process_meta
        /\ snapshot' = processes
        /\ on_disk' = disk

\* one refresh tick
Refresh ==
    \E processes \in Snapshots, disk \in SUBSET LogPaths :
        /\ RefreshWith(processes, disk)
        /\ UNCHANGED LifeRest

NextLifecycle == Refresh

SpecLifecycle == InitLifecycle /\ [][NextLifecycle]_vars

\* the pids of the last snapshot
SnapshotPids == {snapshot[k].pid : k \in 1..Len(snapshot)}

\* C20: after a refresh, every agent that was tracked and whose pid is
\* absent from the snapshot is still tracked under its log path with cpu and
\* memory 0 and command "(stopped)" and all its other metadata unchanged,
\* and no tracked log path is dropped.
C20_StoppedKeepsMetadata ==
    /\ DOMAIN prev_meta \subseteq DOMAIN process_meta
    /\ \A path \in DOMAIN prev_meta :
          prev_meta[path].pid \notin SnapshotPids =>
              process_meta[path] =
                  [prev_meta[path] EXCEPT !.cpu_percent = 0, !.memory_mb = 0,
                                          !.command = "(stopped)"]

\* the pids tracked before the last refresh
TrackedPidsBefore == {prev_meta[path].pid : path \in DOMAIN prev_meta}

\* the processes of the last snapshot that are new by pid: not tracked
\* before, and with an existing log file
NewByPid ==
    SelectSeq(snapshot, LAMBDA proc : /\ proc.pid \notin TrackedPidsBefore
                                      /\ HasLog(proc, on_disk))

\* C21: a refresh of a watcher that tracks agents returns as new exactly
\* the processes of the snapshot whose pid was not tracked and whose log
\* file exists, and leaves as stopped exactly the tracked agents whose pid
\* is absent from the snapshot, also when two pids have the same log file.
C21_RefreshComparesPids ==
    prev_meta # <<>> =>
        /\ new_agents = NewByPid
        /\ \A path \in DOMAIN prev_meta :
              /\ path \in DOMAIN process_meta
              /\ process_meta[path].command = "(stopped)"
                    <=> prev_meta[path].pid \notin SnapshotPids

(***************************************************************************)
(* SpecScan.  One run of the security-scan command: the same prologue as   *)
(* check, then the security detectors, calculate_security_score, the       *)
(* printed status and the exit code.                                       *)
(***************************************************************************)
\* Warning.is_security: the warning's category is a security category
is_security(w) == w.category \in DOMAIN SECURITY_CATEGORY_WEIGHTS

\* calculate_security_score(warnings)
calculate_security_score(ws) ==
    LET sec == SelectSeq(ws, is_security)
        RECURSIVE Deduct(_, _)
        Deduct(score, k) ==
            IF k > Len(sec) THEN score
            ELSE Deduct(score - score_impact(sec[k].severity), k + 1)
    IN  IF sec = <<>> THEN 100
        ELSE IF \E k \in DOMAIN sec : sec[k].severity = "critical" THEN 0
        ELSE Max(0, Deduct(100, 1))

\* the status security_scan prints
ScanStatus(score) ==
    IF score = 100 THEN "secure"
    ELSE IF score > 50 THEN "at_risk"
    ELSE "compromised"

\* the exit code security_scan derives from the score
ScanExitCode(score) ==
    IF score < 50 THEN 2
    ELSE IF score < 100 THEN 1
    ELSE 0

InitScan ==
    /\ InitCheck
    /\ include_security = TRUE

\* check_all of the security registry, calculate_security_score, and the
\* results are printed with their status
PrintScan ==
    /\ cpc = "parsed"
    /\ \E ws \in WarningLists :
          /\ warnings' = ws
          /\ check_report' =
                [security_score |-> calculate_security_score(ws),
                 status |-> ScanStatus(calculate_security_score(ws))]
    /\ cpc' = "printed"
    /\ UNCHANGED <<exit_code, include_security, CheckRest>>

\* sys.exit by the security score
ExitByScanScore ==
    /\ cpc = "printed"
    /\ cpc' = "exited"
    /\ exit_code' = ScanExitCode(check_report.security_score)
    /\ UNCHANGED <<check_report, warnings, include_security, CheckRest>>

NextScan ==
    NoLogFound \/ ParseLog \/ NoActions \/ PrintScan \/ ExitByScanScore

SpecScan == InitScan /\ [][NextScan]_vars

\* the security warnings among the scanned ones, as a set of positions
SecurityPositions == {k \in DOMAIN warnings : is_security(warnings[k])}

\* C27: when security-scan exits after printing its results, the exit code
\* is 0 exactly when the status is secure, 1 exactly when it is at_risk and
\* 2 exactly when it is compromised; and the score is 0 when a security
\* warning is critical, else 100 less the summed impacts, not below 0.
C27_ScanExitMatchesStatus ==
    cpc = "exited" /\ check_report # <<>> =>
        /\ exit_code = 0 <=> check_report.status = "secure"
        /\ exit_code = 1 <=> check_report.status = "at_risk"
        /\ exit_code = 2 <=> check_report.status = "compromised"
        /\ IF \E k \in SecurityPositions : warnings[k].severity = "critical"
           THEN check_report.security_score = 0
           ELSE check_report.security_score =
                   Max(0, 100 - SumOver(SecurityPositions,
                              [k \in SecurityPositions |->
                                  score_impact(warnings[k].severity)]))

(***************************************************************************)
(* Claims about the forest functions on lists that were not made by        *)
(* discovery: absent parents, cycles, descendants of orphans.              *)
(***************************************************************************)
\* agent i of the list handed in is on a cycle of parent links
OnCycle(ags, i) == i \in Ancestors(ags, i)

\* the parent links of agent i of the list lead to an agent without parent
ReachesRoot(ags, i) == RootPids(ags, i) # {}

\* C28: _compute_depths keeps the parent_agent_pid of exactly the agents
\* whose chain of parent links reaches a root; every other agent (declared
\* parent absent, on a cycle, or below such an agent) becomes a root, also
\* when its own parent is in the list.
C28_KeepsParentIffReachesRoot ==
    computed =>
        \A i \in DOMAIN agents :
            agents[i].parent_agent_pid =
                IF ReachesRoot(agents0, i) THEN agents0[i].parent_agent_pid
                ELSE None

\* a child of an agent whose own parent is absent: both became roots
C28_Witness ==
    /\ computed
    /\ \E i, j \in DOMAIN agents :
          /\ agents0[i].parent_agent_pid = agents0[j].pid
          /\ i # j
          /\ agents0[j].parent_agent_pid # None
          /\ agents0[j].parent_agent_pid \notin PidsOf(agents0)
          /\ agents[i].parent_agent_pid = None
          /\ agents[j].parent_agent_pid = None

\* C28 as stated: every agent whose parent_agent_pid names an agent of the
\* list and that is not on a cycle keeps its parent_agent_pid.
C28_PromotesOnlyTrueOrphans ==
    computed =>
        \A i \in DOMAIN agents :
            (/\ agents0[i].parent_agent_pid \in PidsOf(agents0)
             /\ ~OnCycle(agents0, i))
                => agents[i].parent_agent_pid = agents0[i].parent_agent_pid

\* C29: build_agent_tree returns every agent of its input exactly once,
\* whatever the parent links, and build_teams leaves no agent out of the
\* teams' members.
C29_TreeIsPermutation ==
    /\ treeState # "none" => IsArrangementOf(tree, agents)
    /\ teamsState # "none" =>
          \A i \in DOMAIN agents :
              Cardinality(TeamsHolding(agents[i].pid)) = 1

(***************************************************************************)
(* SpecAssign.  build_teams on a list that did not pass through            *)
(* _compute_depths: any depth and any parent_agent_pid.  _assign_team_ids  *)
(* is taken one statement of its while loop at a time; `current` and       *)
(* `walk_ret` hold the indices of its locals `current` and `parent`.       *)
(***************************************************************************)
MaxTeamAgents == 2

DepthValues == {0, 1}

InitAssign ==
    /\ \E n \in 0..MaxTeamAgents :
         \E ps \in [1..n -> Pids], par \in [1..n -> ParentValues],
            d \in [1..n -> DepthValues] :
            /\ Injective(ps)
            /\ agents = [i \in 1..n |->
                            [AgentProcess(ps[i], par[i]) EXCEPT !.depth = d[i]]]
    /\ agents0 = agents
    /\ pid_to_ppid = <<>>
    /\ max_hops = DefaultMaxHops
    /\ idx = 1
    /\ dpc = "assign"
    /\ WalkIdle
    /\ ForestIdle
    /\ TailIdle
    /\ BufferIdle
    /\ LaterIdle

assignRest == <<pid_to_ppid, agents0, max_hops, visited, hops, examined>>

\* lines 288-290: a root's team_id is its own pid
AssignRoot ==
    /\ dpc = "assign" /\ idx <= Len(agents)
    /\ is_root(agents[idx])
    /\ agents' = [agents EXCEPT ![idx].team_id = agents[idx].pid]
    /\ idx' = idx + 1
    /\ UNCHANGED <<current, walk_ret, dpc, assignRest>>
    /\ UNCHANGED <<forestVars, notDiscovery>>

\* line 293: current = agent
AssignEnter ==
    /\ dpc = "assign" /\ idx <= Len(agents)
    /\ ~is_root(agents[idx])
    /\ current' = idx
    /\ dpc' = "while"
    /\ UNCHANGED <<agents, idx, walk_ret, assignRest>>
    /\ UNCHANGED <<forestVars, notDiscovery>>

\* lines 294-295: the loop test holds, parent = agent_by_pid.get(...)
WhileLookup ==
    /\ dpc = "while"
    /\ agents[current].parent_agent_pid # None
    /\ walk_ret' = AgentByPid(agents, agents[current].parent_agent_pid)
    /\ dpc' = "lookup"
    /\ UNCHANGED <<agents, idx, current, assignRest>>
    /\ UNCHANGED <<forestVars, notDiscovery>>

\* line 298 after the loop test failed: agent.team_id = current.pid
WhileExit ==
    /\ dpc = "while"
    /\ agents[current].parent_agent_pid = None
    /\ agents' = [agents EXCEPT ![idx].team_id = agents[current].pid]
    /\ idx' = idx + 1
    /\ dpc' = "assign"
    /\ UNCHANGED <<current, walk_ret, assignRest>>
    /\ UNCHANGED <<forestVars, notDiscovery>>

\* lines 296-297 and 298: parent is None, break, agent.team_id = current.pid
ParentMissing ==
    /\ dpc = "lookup" /\ walk_ret = 0
    /\ agents' = [agents EXCEPT ![idx].team_id = agents[current].pid]
    /\ idx' = idx + 1
    /\ dpc' = "assign"
    /\ UNCHANGED <<current, walk_ret, assignRest>>
    /\ UNCHANGED <<forestVars, notDiscovery>>

\* line 297: current = parent
ParentFound ==
    /\ dpc = "lookup" /\ walk_ret # 0
    /\ current' = walk_ret
    /\ dpc' = "while"
    /\ UNCHANGED <<agents, idx, walk_ret, assignRest>>
    /\ UNCHANGED <<forestVars, notDiscovery>>

\* build_teams, lines 309-325, once _assign_team_ids has returned
GroupTeamsStep ==
    /\ dpc = "assign" /\ idx > Len(agents)
    /\ teams' = GroupTeams(agents)
    /\ teamsState' = "raw"
    /\ dpc' = "done"
    /\ UNCHANGED <<agents, idx, current, walk_ret, assignRest>>
    /\ UNCHANGED <<computed, assigned, tree, treeState>>
    /\ UNCHANGED notDiscovery

NextAssign ==
    \/ AssignRoot \/ AssignEnter \/ WhileLookup \/ WhileExit
    \/ ParentMissing \/ ParentFound \/ GroupTeamsStep

\* the interpreter runs the next statement
SpecAssign == InitAssign /\ [][NextAssign]_vars /\ WF_vars(NextAssign)

\* C30: build_teams returns for every list of agents, every depth and every
\* parent_agent_pid value.
C30_BuildTeamsTerminates == <>(dpc = "done")

(***************************************************************************)
(* Claims about the tailer beyond one quiet file: the gap between the      *)
(* backlog read and the subscription, and rotation.                        *)
(***************************************************************************)
\* C26: whenever watch() waits inside awatch with no change event pending,
\* nothing left to yield and nothing on the queue, the consumer has the
\* actions of every complete line of the file: no line waits for a further
\* write to be emitted.
C26_NoLineLeftUnread ==
    (exists /\ wpc = "tail" /\ ~notified /\ pending = <<>> /\ queue = <<>>) =>
        LogActions(delivered) = RefActions(file, Len(file))

(***************************************************************************)
(* SpecRotate: SpecTail's writer may also rotate the log: once the reader  *)
(* has advanced, the file is truncated to nothing and written anew.        *)
(* LogWatcher keeps _position and _log_format across the rotation; a seek  *)
(* past the end of the file makes readline() return "".                    *)
(***************************************************************************)
RotateRest == <<discVars, forestVars, bufVars, healthVars, effVars, teamVars,
                cliVars, lifeVars, watchVars>>

MaxOldFile == 2
MaxNewFile == 4

InitRotate == InitTail /\ mode = "single"

\* the writer of SpecTail, held to MaxOldFile bytes before the rotation and
\* MaxNewFile bytes after it
RotateAppend ==
    /\ Len(file) < (IF rotation = <<>> THEN MaxOldFile ELSE MaxNewFile)
    /\ AppendByte

\* The log is truncated (or replaced by an empty file of the same path);
\* inside awatch the change is reported as Change.modified.
Truncate ==
    /\ exists /\ position > 0 /\ rotation = <<>>
    /\ file' = <<>>
    /\ rotation' = [returned |-> Len(ReturnedActions),
                    log_format |-> log_format]
    /\ notified' = (notified \/ wpc = "tail")
    /\ fresh' = FALSE
    /\ UNCHANGED <<exists, position, log_format, wpc, pending, mode, queue,
                   delivered, foreign, prev_position, held>>
    /\ UNCHANGED RotateRest

NextRotate ==
    \/ CreateFile \/ RotateAppend \/ BacklogRead \/ YieldAction \/ Subscribe
    \/ ChangeRead \/ Truncate

SpecRotate == InitRotate /\ [][NextRotate]_vars

\* the actions _read_new_lines has returned since the rotation
ReturnedSinceRotation ==
    SubSeq(ReturnedActions, rotation.returned + 1, Len(ReturnedActions))

\* C23: once the log was rotated and _read_new_lines has run after the last
\* write, the actions returned since the rotation are those of the complete
\* lines of the new file, each read from its first byte, starting at byte 0
\* with the format detected before the rotation: no line is skipped, none is
\* cut, and the reader does not stall.
C23_RotationReadFromStart ==
    (rotation # <<>> /\ exists /\ fresh) =>
        ReturnedSinceRotation =
            ReadLoop(file, 0, 0, rotation.log_format, <<>>).actions

(***************************************************************************)
(* SpecWatch.  MultiLogWatcher.watch in process mode, with the consumer    *)
(* that iterates it, the fill_queue tasks it creates and the refreshes of  *)
(* the tracked processes.  watch() is suspended at its two yields and in   *)
(* its sleep; only then do the tasks run, the consumer refresh or close.   *)
(* mpc: "idle" before the first step, "add" in the for loop, "added" at    *)
(* the yield of line 223, "drain" in the while loop, "drained" at the      *)
(* yield of line 227, "sleep" at line 229, "closed" after the finally.     *)
(***************************************************************************)
MaxWatchProcs == 2
MaxTaskActions == 1

WatchPaths == {"a.jsonl", "c.jsonl", "chat.history.md"}

\* Path.suffix
PathSuffix(path) ==
    CASE path = "a.jsonl" -> ".jsonl"
      [] path = "c.jsonl" -> ".jsonl"
      [] path = "chat.history.md" -> ".md"

\* two claude-code sessions and an agent that logs to a markdown history
WatchInputs ==
    { LiveProcess(1, "a.jsonl", 0, None, 0, 1),
      LiveProcess(2, "c.jsonl", 1, 1, 1, 1),
      LiveProcess(3, "chat.history.md", 0, None, 0, 3) }

\* discovery results of at most MaxWatchProcs agents, ordered by pid
ByPid(T) ==
    LET pids == SortedSeq({proc.pid : proc \in T})
    IN  [k \in DOMAIN pids |-> CHOOSE proc \in T : proc.pid = pids[k]]

WatchSnapshots ==
    {ByPid(T) : T \in {U \in SUBSET WatchInputs :
                           Cardinality(U) <= MaxWatchProcs}}

\* _find_all_logs in process mode, line 190
find_all_logs(meta) == {path \in DOMAIN meta : PathSuffix(path) = ".jsonl"}

\* Variant: every log is taken for a new one.
IsNewLogAlways(log, active) == TRUE

\* line 218: log_meta not in self._active_files
IsNewLog(log, active) == log \notin active

\* the events of watch()
AgentAdded(path) == [kind |-> "agent_added", path |-> path, n |-> 0]
ActionOf(path, n) == [kind |-> "action", path |-> path, n |-> n]

\* tasks[log]: the task the dict holds for the path, the last one created
InDict(ts, i) == \A j \in (i + 1)..Len(ts) : ts[j].path # ts[i].path

\* Variant: the finally block cancels the first task only.
CancelFirstOnly(ts) ==
    [i \in DOMAIN ts |->
        IF i = 1 THEN [ts[i] EXCEPT !.state = "cancelled"] ELSE ts[i]]

\* lines 231-232: for task in tasks.values(): task.cancel()
CancelAll(ts) ==
    [i \in DOMAIN ts |->
        IF InDict(ts, i) THEN [ts[i] EXCEPT !.state = "cancelled"] ELSE ts[i]]

Suspended == mpc \in {"added", "drained", "sleep"}

WatchRest == <<discVars, forestVars, tailVars, bufVars, healthVars, effVars,
               teamVars, cliVars, rotVars>>

InitWatch ==
    /\ snapshot \in WatchSnapshots
    /\ on_disk = WatchPaths
    /\ process_meta = from_processes(<<>>, snapshot, on_disk, 1)
    /\ prev_meta = <<>>
    /\ new_agents = <<>>
    /\ DiscoveryIdle /\ TailIdle /\ BufferIdle /\ HealthIdle /\ EffIdle
    /\ TeamIdle /\ CliIdle /\ RotIdle /\ WatchIdle

\* line 216, on the first step of the generator and after each sleep
Poll ==
    /\ mpc \in {"idle", "sleep"}
    /\ current_logs' = find_all_logs(process_meta)
    /\ polled' = DOMAIN process_meta
    /\ mpc' = "add"
    /\ UNCHANGED <<active_files, tasks, wqueue, yielded, lifeVars, WatchRest>>

\* lines 217-223: a log that is not active gets a watcher and a task, and
\* its agent_added event is yielded
AddLog ==
    /\ mpc \in {"add", "added"}
    /\ \E log \in current_logs :
          /\ IsNewLog(log, active_files)
          /\ active_files' = active_files \cup {log}
          /\ tasks' = Append(tasks, [path |-> log, state |-> "running",
                                     position |-> 0, puts |-> 0])
          /\ yielded' = Append(yielded, AgentAdded(log))
          /\ current_logs' = current_logs \ {log}
    /\ mpc' = "added"
    /\ UNCHANGED <<wqueue, polled, lifeVars, WatchRest>>

\* lines 217-218: an active log is passed over
SkipLog ==
    /\ mpc \in {"add", "added"}
    /\ \E log \in current_logs :
          /\ ~IsNewLog(log, active_files)
          /\ current_logs' = current_logs \ {log}
    /\ mpc' = "add"
    /\ UNCHANGED <<active_files, tasks, wqueue, yielded, polled, lifeVars,
                   WatchRest>>

\* the for loop is done
EndAdd ==
    /\ mpc \in {"add", "added"} /\ current_logs = {}
    /\ mpc' = "drain"
    /\ UNCHANGED <<active_files, tasks, wqueue, yielded, current_logs, polled,
                   lifeVars, WatchRest>>

\* lines 226-227: yield await queue.get()
Drain ==
    /\ mpc \in {"drain", "drained"} /\ wqueue # <<>>
    /\ yielded' = Append(yielded, Head(wqueue))
    /\ wqueue' = Tail(wqueue)
    /\ mpc' = "drained"
    /\ UNCHANGED <<active_files, tasks, current_logs, polled, lifeVars,
                   WatchRest>>

\* lines 226 and 229: the queue is empty, watch() sleeps
EndDrain ==
    /\ mpc \in {"drain", "drained"} /\ wqueue = <<>>
    /\ mpc' = "sleep"
    /\ UNCHANGED <<active_files, tasks, wqueue, yielded, current_logs, polled,
                   lifeVars, WatchRest>>

\* lines 207-209: a fill_queue task that is not cancelled gets an action
\* from its watcher and puts it on the queue; it runs while watch() is
\* suspended, and after watch() is closed
TaskPut ==
    /\ Suspended \/ mpc = "closed"
    /\ \E i \in DOMAIN tasks :
          /\ tasks[i].state = "running" /\ tasks[i].puts < MaxTaskActions
          /\ tasks' = [tasks EXCEPT ![i].puts = @ + 1]
          /\ wqueue' = Append(wqueue, ActionOf(tasks[i].path,
                                               tasks[i].puts + 1))
    /\ UNCHANGED <<active_files, yielded, mpc, current_logs, polled, lifeVars,
                   WatchRest>>

\* the consumer closes the generator at a yield, or the sleep is cancelled:
\* lines 230-232
Close ==
    /\ Suspended
    /\ tasks' = CancelAll(tasks)
    /\ mpc' = "closed"
    /\ UNCHANGED <<active_files, wqueue, yielded, current_logs, polled,
                   lifeVars, WatchRest>>

\* refresh_processes, called before watch() starts or while it is suspended
WatchRefresh ==
    /\ Suspended \/ mpc = "idle"
    /\ \E processes \in WatchSnapshots : RefreshWith(processes, WatchPaths)
    /\ UNCHANGED <<watchVars, WatchRest>>

\* the steps of watch() itself
WatchStep == Poll \/ AddLog \/ SkipLog \/ EndAdd \/ Drain \/ EndDrain

NextWatch == WatchStep \/ TaskPut \/ Close \/ WatchRefresh

\* the consumer keeps iterating watch() until it closes it
SpecWatch == InitWatch /\ [][NextWatch]_vars /\ WF_vars(WatchStep)

\* positions of the agent_added events of path among the yielded events
AddedAt(path) == {k \in DOMAIN yielded : yielded[k] = AgentAdded(path)}

\* the tasks created for path
TasksOf(path) == {i \in DOMAIN tasks : tasks[i].path = path}

\* C25: at every point of every interleaving, a log path has at most one
\* tail task; a path with a task has exactly one agent_added event and a
\* path without one has none; and every action event the consumer received
\* comes after the agent_added event of its path.
C25_OneTaskOneAddedFirst ==
    /\ \A path \in WatchPaths :
          /\ Cardinality(TasksOf(path)) <= 1
          /\ Cardinality(AddedAt(path)) = Cardinality(TasksOf(path))
    /\ \A k \in DOMAIN yielded :
          yielded[k].kind = "action" =>
              \E j \in 1..(k - 1) : yielded[j] = AgentAdded(yielded[k].path)

\* two paths got their tasks in different polls, the second poll having
\* passed over the first path after an action of it was drained, and the
\* consumer has received an action of each path
C25_Witness ==
    /\ Len(tasks) = 2
    /\ \A i \in DOMAIN tasks :
          \E k \in DOMAIN yielded :
              yielded[k].kind = "action" /\ yielded[k].path = tasks[i].path
    /\ \E k \in DOMAIN yielded :
          /\ yielded[k].kind = "action"
          /\ \E j \in (k + 1)..Len(yielded) : yielded[j].kind = "agent_added"

C22_TrackedAgentIsAdded ==
    \A path \in WatchPaths :
        (path \in DOMAIN process_meta) ~>
            \/ mpc = "closed"
            \/ /\ AddedAt(path) # {}
               /\ \E i \in TasksOf(path) : tasks[i].position = 0

====
